---- MODULE Spec2Model ----
(***************************************************************************)
(* A model of the @fydemy/cms core: input validation, the login rate       *)
(* limiter, the credential checker, the JWT session manager, the local     *)
(* storage provider, the markdown content layer and the request handlers.  *)
(*                                                                         *)
(* Strings of credentials are sequences of one-character strings, so that  *)
(* lengths, the username alphabet and the UTF-8 encoding are computed.     *)
(* Path strings are sequences of symbols: a symbol is a separator, a dot,  *)
(* a special character or an opaque word of letters.                       *)
(***************************************************************************)
EXTENDS Integers, Sequences, FiniteSets, TLC

VARIABLES
  env,             \* process.env: the configuration read at call time
  now,             \* Date.now(), in milliseconds
  ticks,           \* number of clock advances so far
  rateLimitStore,  \* rate-limit.ts: Map identifier -> {count, resetTime}
  fs,              \* the file system under process.cwd()
  issued,          \* the tokens createSession has returned so far
  inflight,        \* per identifier: handleLogin requests suspended at `await request.json()`
  resp,            \* the response of the handler that completed last
  call,            \* the last direct call of an exported function and its result
  incs,            \* per identifier: incrementRateLimit calls since the last reset
  rolled,          \* per identifier: an expired entry was replaced since the last reset
  evals,           \* per identifier: failed credential evaluations in the live window
  streak,          \* per identifier: consecutive failed logins in the live window
  loggedOut,       \* handleLogout has answered at least one request
  requests         \* number of requests the HTTP API has received

vars == <<env, now, ticks, rateLimitStore, fs, issued, inflight, resp, call,
          incs, rolled, evals, streak, loggedOut, requests>>

----------------------------------------------------------------------------
(* Bounds of the model *)

MaxShort == 2      \* short credential strings have 0..MaxShort characters
MaxTicks == 3      \* clock advances per behaviour
MaxIncr == 7       \* direct incrementRateLimit calls per identifier
MaxInflight == 2   \* concurrent handleLogin requests

----------------------------------------------------------------------------
(* JavaScript values *)

Undefined == [type |-> "undefined"]
Str(s) == [type |-> "string", s |-> s]
IsString(v) == v.type = "string"
\* !v for the values used here: undefined and the empty string are falsy
Falsy(v) == v.type = "undefined" \/ (v.type = "string" /\ v.s = <<>>)

Rep(c, n) == [i \in 1..n |-> c]
Max(a, b) == IF a >= b THEN a ELSE b

Return(v) == [tag |-> "return", value |-> v]
Throw(msg) == [tag |-> "throw", error |-> msg]

----------------------------------------------------------------------------
(* utils/validation.ts: credentials *)

MAX_USERNAME_LENGTH == 100
MAX_PASSWORD_LENGTH == 1000

\* lone surrogate (U+D800) and the replacement character (U+FFFD)
SUR == "\\uD800"
REP == "\\uFFFD"

\* the characters of [a-zA-Z0-9_-] that the model uses
UsernameChars == {"a", "b", "Z", "0", "_", "-"}

\* /^[a-zA-Z0-9_-]+$/.test(s)
MatchesNameRegex(s) == Len(s) >= 1 /\ \A i \in 1..Len(s) : s[i] \in UsernameChars

validateUsername(username) ==
  IF Falsy(username) \/ ~IsString(username) THEN Throw("Username is required")
  ELSE IF Len(username.s) > MAX_USERNAME_LENGTH
    THEN Throw("Username must be 100 characters or less")
  ELSE IF ~MatchesNameRegex(username.s)
    THEN Throw("Username must contain only letters, numbers, underscores, and hyphens")
  ELSE Return(TRUE)

validatePassword(password) ==
  IF Falsy(password) \/ ~IsString(password) THEN Throw("Password is required")
  ELSE IF Len(password.s) > MAX_PASSWORD_LENGTH
    THEN Throw("Password must be 1000 characters or less")
  ELSE Return(TRUE)

----------------------------------------------------------------------------
(* auth/login.ts *)

\* Buffer.from(s, "utf-8"): the bytes of one UTF-16 code unit; an unpaired
\* surrogate is encoded as U+FFFD
Utf8Char(c) ==
  CASE c = "a" -> <<97>>
    [] c = "b" -> <<98>>
    [] c = "p" -> <<112>>
    [] c = "q" -> <<113>>
    [] c = "s" -> <<115>>
    [] c = "k" -> <<107>>
    [] c = "Z" -> <<90>>
    [] c = "0" -> <<48>>
    [] c = "_" -> <<95>>
    [] c = "-" -> <<45>>
    [] c = "@" -> <<64>>
    [] c = " " -> <<32>>
    [] c = REP -> <<239, 191, 189>>
    [] c = SUR -> <<239, 191, 189>>

RECURSIVE BufferFrom(_)
BufferFrom(s) ==
  IF Len(s) = 0 THEN <<>>
  ELSE IF Len(s) = 1 THEN Utf8Char(s[1])
  ELSE LET m == Len(s) \div 2
       IN BufferFrom(SubSeq(s, 1, m)) \o BufferFrom(SubSeq(s, m + 1, Len(s)))

timingSafeEqual(a, b) ==
  LET bufferA == BufferFrom(a)
      bufferB == BufferFrom(b)
  IN IF Len(bufferA) # Len(bufferB) THEN FALSE ELSE bufferA = bufferB

\* validateCredentials that lets the error of a failed format validation escape
validateCredentialsRethrow(e, username, password) ==
  IF validateUsername(username).tag = "throw" THEN validateUsername(username)
  ELSE IF validatePassword(password).tag = "throw" THEN validatePassword(password)
  ELSE IF Falsy(e.CMS_ADMIN_USERNAME) \/ Falsy(e.CMS_ADMIN_PASSWORD)
    THEN Throw("Server misconfiguration")
  ELSE Return(timingSafeEqual(username.s, e.CMS_ADMIN_USERNAME.s)
              /\ timingSafeEqual(password.s, e.CMS_ADMIN_PASSWORD.s))

\* validateCredentials without the fail-fast on a missing configuration
validateCredentialsNoThrow(e, username, password) ==
  IF validateUsername(username).tag = "throw" \/ validatePassword(password).tag = "throw"
    THEN Return(FALSE)
  ELSE IF Falsy(e.CMS_ADMIN_USERNAME) \/ Falsy(e.CMS_ADMIN_PASSWORD)
    THEN Return(FALSE)
  ELSE Return(timingSafeEqual(username.s, e.CMS_ADMIN_USERNAME.s)
              /\ timingSafeEqual(password.s, e.CMS_ADMIN_PASSWORD.s))

validateCredentials(e, username, password) ==
  IF validateUsername(username).tag = "throw" \/ validatePassword(password).tag = "throw"
    THEN Return(FALSE)
  ELSE IF Falsy(e.CMS_ADMIN_USERNAME) \/ Falsy(e.CMS_ADMIN_PASSWORD)
    THEN Throw("CMS_ADMIN_USERNAME and CMS_ADMIN_PASSWORD must be set in environment variables")
  ELSE LET usernameMatch == timingSafeEqual(username.s, e.CMS_ADMIN_USERNAME.s)
           passwordMatch == timingSafeEqual(password.s, e.CMS_ADMIN_PASSWORD.s)
       IN Return(usernameMatch /\ passwordMatch)

----------------------------------------------------------------------------
(* auth/session.ts *)

SESSION_DURATION == 60 * 60 * 24 * 7
MIN_SECRET_LENGTH == 32

NoSession == [type |-> "null"]

\* Math.floor(Date.now() / 1000)
EpochSeconds(t) == t \div 1000

getSecretKey(e) ==
  IF Falsy(e.CMS_SESSION_SECRET) \/ Len(e.CMS_SESSION_SECRET.s) < MIN_SECRET_LENGTH
    THEN Throw("CMS_SESSION_SECRET must be at least 32 characters")
  ELSE Return(e.CMS_SESSION_SECRET.s)

\* A compact JWS: the key it was signed with stands for its signature.
Jwt(key, username, exp) == [type |-> "string", kind |-> "jwt", key |-> key,
                            username |-> username, exp |-> exp]
Garbage == [type |-> "string", kind |-> "garbage"]
EmptyToken == [type |-> "string", kind |-> "empty"]
NoExp == [type |-> "undefined"]
Num(n) == [type |-> "number", n |-> n]

createSession(e, t, username) ==
  LET key == getSecretKey(e)
  IN IF key.tag = "throw" THEN key
     ELSE Return(Jwt(key.value, username, Num(EpochSeconds(t) + SESSION_DURATION)))

\* jwtVerify that still accepts a token in the second of its expiry
jwtVerifyLate(token, key, t) ==
  IF token.kind # "jwt" THEN Throw("JWSInvalid")
  ELSE IF token.key # key THEN Throw("JWSSignatureVerificationFailed")
  ELSE IF token.exp.type = "number" /\ token.exp.n < EpochSeconds(t)
    THEN Throw("JWTExpired")
  ELSE Return([username |-> token.username, exp |-> token.exp])

\* jose jwtVerify: the compact form parses, the signature verifies under the
\* key, and an exp claim, if present, is a number that lies in the future
jwtVerify(token, key, t) ==
  IF token.kind # "jwt" THEN Throw("JWSInvalid")
  ELSE IF token.key # key THEN Throw("JWSSignatureVerificationFailed")
  ELSE IF token.exp.type = "number" /\ token.exp.n <= EpochSeconds(t)
    THEN Throw("JWTExpired")
  ELSE Return([username |-> token.username, exp |-> token.exp])

\* verifySession with getSecretKey() evaluated outside the try block
verifySessionUnguarded(e, t, token) ==
  LET key == getSecretKey(e)
  IN IF key.tag = "throw" THEN key
     ELSE LET v == jwtVerify(token, key.value, t)
          IN IF v.tag = "throw" THEN Return(NoSession)
             ELSE IF v.value.username.type = "string" /\ v.value.exp.type = "number"
               THEN Return([type |-> "session", username |-> v.value.username,
                            exp |-> v.value.exp])
             ELSE Return(NoSession)

verifySession(e, t, token) ==
  LET key == getSecretKey(e)
  IN IF key.tag = "throw" THEN Return(NoSession)
     ELSE LET v == jwtVerify(token, key.value, t)
          IN IF v.tag = "throw" THEN Return(NoSession)
             ELSE IF v.value.username.type = "string" /\ v.value.exp.type = "number"
               THEN Return([type |-> "session", username |-> v.value.username,
                            exp |-> v.value.exp])
             ELSE Return(NoSession)

\* getSessionFromCookies reading a cookie name that is never set
getSessionFromCookiesOtherName(e, t, cookie) == Return(NoSession)

\* cookie: the value of the cms-session cookie, or Undefined when it is absent
getSessionFromCookies(e, t, cookie) ==
  IF cookie.type = "undefined" \/ cookie.kind = "empty" THEN Return(NoSession)
  ELSE verifySession(e, t, cookie)

----------------------------------------------------------------------------
(* Path strings and Node's posix path module *)

SEP == "/"
DOT == "."
BSL == "\\"
NUL == "\\x00"

Last(s) == s[Len(s)]
StartsWith(s, pre) == Len(s) >= Len(pre) /\ SubSeq(s, 1, Len(pre)) = pre
EndsWith(s, suf) == Len(s) >= Len(suf) /\ SubSeq(s, Len(s) - Len(suf) + 1, Len(s)) = suf

\* the positions at which pat occurs in s
Occurrences(s, pat) ==
  {i \in 1..(Len(s) - Len(pat) + 1) : SubSeq(s, i, i + Len(pat) - 1) = pat}

\* s.includes(pat)
Includes(s, pat) == Occurrences(s, pat) # {}

Min(S) == CHOOSE x \in S : \A y \in S : x <= y

\* s.split(sep) for a one-symbol separator
RECURSIVE Split(_, _)
Split(s, sep) ==
  IF ~Includes(s, <<sep>>) THEN <<s>>
  ELSE LET i == Min(Occurrences(s, <<sep>>))
       IN <<SubSeq(s, 1, i - 1)>> \o Split(SubSeq(s, i + 1, Len(s)), sep)

\* segs.join(sep)
RECURSIVE JoinWith(_, _)
JoinWith(segs, sep) ==
  IF segs = <<>> THEN <<>>
  ELSE IF Len(segs) = 1 THEN segs[1]
  ELSE segs[1] \o <<sep>> \o JoinWith(Tail(segs), sep)

\* path.normalize's normalizeString: drop empty and "." segments, resolve ".."
RECURSIVE NormalizeSegs(_, _, _)
NormalizeSegs(acc, segs, allowAboveRoot) ==
  IF segs = <<>> THEN acc
  ELSE LET seg == Head(segs)
           next ==
             IF seg = <<>> \/ seg = <<DOT>> THEN acc
             ELSE IF seg = <<DOT, DOT>>
               THEN IF acc # <<>> /\ Last(acc) # <<DOT, DOT>>
                      THEN SubSeq(acc, 1, Len(acc) - 1)
                    ELSE IF allowAboveRoot THEN Append(acc, seg)
                    ELSE acc
             ELSE Append(acc, seg)
       IN NormalizeSegs(next, Tail(segs), allowAboveRoot)

\* path.normalize(p)
PathNormalize(p) ==
  IF p = <<>> THEN <<DOT>>
  ELSE LET isAbsolute == p[1] = SEP
           trailingSeparator == Last(p) = SEP
           body == JoinWith(NormalizeSegs(<<>>, Split(p, SEP), ~isAbsolute), SEP)
       IN IF body = <<>>
            THEN IF isAbsolute THEN <<SEP>>
                 ELSE IF trailingSeparator THEN <<DOT, SEP>> ELSE <<DOT>>
          ELSE (IF isAbsolute THEN <<SEP>> ELSE <<>>) \o body
               \o (IF trailingSeparator THEN <<SEP>> ELSE <<>>)

\* path.join(...parts)
PathJoin(parts) ==
  LET nonEmpty == SelectSeq(parts, LAMBDA x : x # <<>>)
  IN PathNormalize(JoinWith(nonEmpty, SEP))

----------------------------------------------------------------------------
(* utils/validation.ts: file paths and sizes *)

MAX_FILE_SIZE == 10 * 1024 * 1024

\* the characters of /[<>:"|?*]/
ForbiddenChars == {"<", ">", ":", "\"", "|", "?", "*"}

ReservedNames ==
  {"con", "prn", "aux", "nul"} \cup
  {"com0", "com1", "com2", "com3", "com4", "com5", "com6", "com7", "com8", "com9"} \cup
  {"lpt0", "lpt1", "lpt2", "lpt3", "lpt4", "lpt5", "lpt6", "lpt7", "lpt8", "lpt9"}

\* lower case of the words the model uses in mixed case
Lower(w) ==
  CASE w = "CON" -> "con"
    [] w = "Nul" -> "nul"
    [] w = "NUL" -> "nul"
    [] w = "Com1" -> "com1"
    [] OTHER -> w

\* .replace(/^(\.\.(\/|\\|$))+/, "")
RECURSIVE StripLeadingDotDots(_)
StripLeadingDotDots(s) ==
  IF s = <<DOT, DOT>> THEN <<>>
  ELSE IF Len(s) >= 3 /\ SubSeq(s, 1, 2) = <<DOT, DOT>> /\ s[3] \in {SEP, BSL}
    THEN LET rest == SubSeq(s, 4, Len(s))
         IN IF rest = <<DOT, DOT>>
                 \/ (Len(rest) >= 3 /\ SubSeq(rest, 1, 2) = <<DOT, DOT>> /\ rest[3] \in {SEP, BSL})
              THEN StripLeadingDotDots(rest)
            ELSE rest
  ELSE s

\* /^(con|prn|aux|nul|com[0-9]|lpt[0-9])(\..*)?$/i.test(s)
MatchesReservedName(s) ==
  /\ Len(s) >= 1
  /\ Lower(s[1]) \in ReservedNames
  /\ \/ Len(s) = 1
     \/ s[2] = DOT /\ \A i \in 3..Len(s) : s[i] # "\n"

\* one of the dangerousPatterns matches
MatchesDangerousPattern(s) ==
  \/ Includes(s, <<DOT, DOT>>)
  \/ (Len(s) >= 1 /\ s[1] \in {SEP, BSL})
  \/ \E i \in 1..Len(s) : s[i] \in ForbiddenChars
  \/ Includes(s, <<NUL>>)
  \/ MatchesReservedName(s)

\* validateFilePath without the test for ".." before normalization
validateFilePathLateCheck(filePath) ==
  IF filePath = <<>> THEN Throw("Invalid file path")
  ELSE IF Includes(filePath, <<NUL>>) THEN Throw("Invalid file path: null byte detected")
  ELSE LET normalized == StripLeadingDotDots(PathNormalize(filePath))
       IN IF StartsWith(normalized, <<SEP>>) \/ StartsWith(normalized, <<BSL>>)
            THEN Throw("Invalid file path: directory traversal detected")
          ELSE IF MatchesDangerousPattern(normalized)
            THEN Throw("Invalid file path: contains dangerous characters")
          ELSE Return(normalized)

validateFilePath(filePath) ==
  IF filePath = <<>> THEN Throw("Invalid file path")
  ELSE IF Includes(filePath, <<NUL>>) THEN Throw("Invalid file path: null byte detected")
  ELSE IF Includes(filePath, <<DOT, DOT>>)
    THEN Throw("Invalid file path: directory traversal detected")
  ELSE LET normalized == StripLeadingDotDots(PathNormalize(filePath))
       IN IF StartsWith(normalized, <<SEP>>) \/ StartsWith(normalized, <<BSL>>)
            THEN Throw("Invalid file path: directory traversal detected")
          ELSE IF MatchesDangerousPattern(normalized)
            THEN Throw("Invalid file path: contains dangerous characters")
          ELSE Return(normalized)

----------------------------------------------------------------------------
(* Texts, frontmatter and the markdown serialisation (content/markdown.ts) *)

\* A text is `pad` one-byte filler characters followed by the symbols of
\* `text`; the filler stands for a long run of ordinary characters.
Text(pad, text) == [pad |-> pad, text |-> text]
EmptyText == Text(0, <<>>)

\* UTF-8 length of one symbol
SymBytes(w) ==
  CASE w = "body" -> 4
    [] w = "more" -> 4
    [] OTHER -> 1

RECURSIVE SeqBytes(_)
SeqBytes(s) == IF s = <<>> THEN 0 ELSE SymBytes(Head(s)) + SeqBytes(Tail(s))

\* Buffer.byteLength(text, "utf-8")
ByteLength(t) == t.pad + SeqBytes(t.text)

EmptyData == <<>>

\* value.replace(/\x00/g, "")
StripNul(chars) == SelectSeq(chars, LAMBDA c : c # NUL)

Bool(b) == [type |-> "boolean", b |-> b]
Arr(items) == [type |-> "array", items |-> items]

\* value.map((item) => typeof item === "string" ? item.replace(/\x00/g, "") : item)
SanitizeItems(items) ==
  [i \in DOMAIN items |->
     IF items[i].type = "string" THEN Str(StripNul(items[i].s)) ELSE items[i]]

\* the types of value that sanitizeFrontmatter copies
CopiedTypes == {"string", "number", "boolean", "null", "array", "object"}

\* keys that match /^[a-zA-Z0-9_-]+$/ are kept; string values lose their
\* null bytes; numbers, booleans and null are kept as they are; the string
\* items of an array lose their null bytes and its other items are kept as
\* they are; an object is sanitized in the same way; other values are dropped
RECURSIVE sanitizeFrontmatter(_)
sanitizeFrontmatter(data) ==
  [key \in {k \in DOMAIN data : MatchesNameRegex(k) /\ data[k].type \in CopiedTypes} |->
     LET value == data[key]
     IN CASE value.type = "string" -> Str(StripNul(value.s))
          [] value.type \in {"number", "boolean", "null"} -> value
          [] value.type = "array" -> Arr(SanitizeItems(value.items))
          [] value.type = "object" ->
               [type |-> "object", map |-> sanitizeFrontmatter(value.map)]]

\* gray-matter's newline(): a text that does not end in "\n" gets one
Newline(t) ==
  IF t.text # <<>> /\ Last(t.text) = "\n" THEN t
  ELSE Text(t.pad, Append(t.text, "\n"))

\* matter.stringify(content, data): the frontmatter block, when data is not
\* empty, then the content with a final newline
stringifyMarkdown(data, content) == [data |-> data, body |-> Newline(content)]

\* matter(rawContent)
parseMarkdown(rawContent) == [data |-> rawContent.data, content |-> rawContent.body]

RECURSIVE YamlBytes(_, _)
YamlBytes(data, keys) ==
  IF keys = {} THEN 0
  ELSE LET k == CHOOSE x \in keys : TRUE
           v == IF data[k].type = "string" THEN Len(data[k].s) ELSE 1
       IN Len(k) + 2 + v + 1 + YamlBytes(data, keys \ {k})

\* Buffer.byteLength(markdown, "utf-8"): "---\n" + yaml + "---\n" + body
RawBytes(raw) ==
  (IF DOMAIN raw.data = {} THEN 0 ELSE 8 + YamlBytes(raw.data, DOMAIN raw.data))
  + ByteLength(raw.body)

----------------------------------------------------------------------------
(* content/storage.ts: LocalStorage over the file system *)

\* process.cwd() and the directories of LocalStorage
Cwd == <<SEP, "app">>
BaseDir == <<"public", SEP, "content">>
PublicDir == <<"public">>
UploadsDir == <<"uploads">>

\* the file system maps the segments of an absolute path to a node
FileNode(content) == [kind |-> "file", content |-> content]
DirNode == [kind |-> "dir"]

Key(p) == NormalizeSegs(<<>>, Split(p, SEP), FALSE)
Trailing(p) == Len(p) > 1 /\ Last(p) = SEP

IsDir(fsys, p) == Key(p) \in DOMAIN fsys /\ fsys[Key(p)].kind = "dir"
IsFile(fsys, p) == ~Trailing(p) /\ Key(p) \in DOMAIN fsys /\ fsys[Key(p)].kind = "file"

FsPut(fsys, k, node) == [x \in DOMAIN fsys \cup {k} |-> IF x = k THEN node ELSE fsys[x]]
FsRemove(fsys, k) == [x \in DOMAIN fsys \ {k} |-> fsys[x]]

Prefixes(k) == {SubSeq(k, 1, i) : i \in 0..Len(k)}

\* path.dirname of an absolute normalized path
PathDirname(p) ==
  LET k == Key(p)
  IN IF Len(k) <= 1 THEN <<SEP>>
     ELSE <<SEP>> \o JoinWith(SubSeq(k, 1, Len(k) - 1), SEP)

\* fs.mkdir(dir, { recursive: true })
Mkdirp(fsys, dir) ==
  LET k == Key(dir)
  IN IF \E a \in Prefixes(k) : a \in DOMAIN fsys /\ fsys[a].kind = "file"
       THEN [res |-> Throw("ENOTDIR"), fs |-> fsys]
     ELSE [res |-> Return(TRUE),
           fs |-> [x \in DOMAIN fsys \cup Prefixes(k) |->
                     IF x \in DOMAIN fsys THEN fsys[x] ELSE DirNode]]

\* fs.writeFile(full, content)
FsWriteFile(fsys, full, content) ==
  IF Trailing(full) \/ IsDir(fsys, full) THEN [res |-> Throw("EISDIR"), fs |-> fsys]
  ELSE IF ~IsDir(fsys, PathDirname(full)) THEN [res |-> Throw("ENOENT"), fs |-> fsys]
  ELSE [res |-> Return(TRUE), fs |-> FsPut(fsys, Key(full), FileNode(content))]

getFullPath(filePath) == PathJoin(<<Cwd, BaseDir, filePath>>)

LocalReadFile(fsys, filePath) ==
  LET fullPath == getFullPath(filePath)
  IN IF IsFile(fsys, fullPath)
       THEN [res |-> Return(fsys[Key(fullPath)].content), fs |-> fsys]
     ELSE [res |-> Throw("ENOENT"), fs |-> fsys]

LocalWriteFile(fsys, filePath, content) ==
  LET fullPath == getFullPath(filePath)
      made == Mkdirp(fsys, PathDirname(fullPath))
  IN IF made.res.tag = "throw" THEN made
     ELSE FsWriteFile(made.fs, fullPath, content)

LocalDeleteFile(fsys, filePath) ==
  LET fullPath == getFullPath(filePath)
  IN IF IsFile(fsys, fullPath)
       THEN [res |-> Return(TRUE), fs |-> FsRemove(fsys, Key(fullPath))]
     ELSE [res |-> Throw("ENOENT"), fs |-> fsys]

\* the names in a directory
Children(fsys, k) ==
  {c \in DOMAIN fsys : Len(c) = Len(k) + 1 /\ SubSeq(c, 1, Len(k)) = k}

MdSuffix == <<DOT, "md">>

LocalListFiles(fsys, directory) ==
  LET fullPath == getFullPath(directory)
  IN IF ~IsDir(fsys, fullPath) THEN [res |-> Return({}), fs |-> fsys]
     ELSE LET entries ==
                {[path |-> PathJoin(<<directory, Last(c)>>), name |-> Last(c),
                  type |-> IF fsys[c].kind = "dir" THEN "directory" ELSE "file"]
                   : c \in Children(fsys, Key(fullPath))}
          IN [res |-> Return({e \in entries :
                                e.type = "directory" \/ EndsWith(e.name, MdSuffix)}),
              fs |-> fsys]

LocalExists(fsys, filePath) ==
  LET fullPath == getFullPath(filePath)
  IN [res |-> Return(IsFile(fsys, fullPath) \/ IsDir(fsys, fullPath)), fs |-> fsys]

LocalUploadFile(fsys, filePath, buffer) ==
  LET uploadPath == PathJoin(<<Cwd, PublicDir, UploadsDir, filePath>>)
      made == Mkdirp(fsys, PathDirname(uploadPath))
  IN IF made.res.tag = "throw" THEN made
     ELSE LET w == FsWriteFile(made.fs, uploadPath, buffer)
          IN IF w.res.tag = "throw" THEN w
             ELSE [res |-> Return(<<SEP>> \o UploadsDir \o <<SEP>> \o filePath), fs |-> w.fs]

----------------------------------------------------------------------------
(* content/markdown.ts, content/directory.ts, content/collection.ts and     *)
(* content/upload.ts.  Every operation returns its result, the file system  *)
(* after it and the set of StorageProvider calls it made.                   *)

StorageCall(method, arg, full) == [method |-> method, arg |-> arg, full |-> full]

Outcome(res, fsys, calls) == [res |-> res, fs |-> fsys, calls |-> calls]

getMarkdownContent(fsys, filePath) ==
  LET v == validateFilePath(filePath)
  IN IF v.tag = "throw" THEN Outcome(v, fsys, {})
     ELSE LET r == LocalReadFile(fsys, v.value)
              calls == {StorageCall("readFile", v.value, getFullPath(v.value))}
          IN IF r.res.tag = "throw" THEN Outcome(r.res, fsys, calls)
             ELSE IF RawBytes(r.res.value) > MAX_FILE_SIZE
               THEN Outcome(Throw("File size exceeds maximum allowed size"), fsys, calls)
             ELSE Outcome(Return(parseMarkdown(r.res.value)), fsys, calls)

\* a save that writes first and tests the size afterwards
saveMarkdownContentWriteFirst(fsys, filePath, data, content) ==
  LET v == validateFilePath(filePath)
  IN IF v.tag = "throw" THEN Outcome(v, fsys, {})
     ELSE LET markdown == stringifyMarkdown(sanitizeFrontmatter(data), content)
              w == LocalWriteFile(fsys, v.value, markdown)
          IN IF RawBytes(markdown) > MAX_FILE_SIZE
               THEN Outcome(Throw("Content size exceeds maximum allowed size"), w.fs,
                            {StorageCall("writeFile", v.value, getFullPath(v.value))})
             ELSE Outcome(w.res, w.fs,
                          {StorageCall("writeFile", v.value, getFullPath(v.value))})

saveMarkdownContent(fsys, filePath, data, content) ==
  LET v == validateFilePath(filePath)
  IN IF v.tag = "throw" THEN Outcome(v, fsys, {})
     ELSE LET markdown == stringifyMarkdown(sanitizeFrontmatter(data), content)
          IN IF RawBytes(markdown) > MAX_FILE_SIZE
               THEN Outcome(Throw("Content size exceeds maximum allowed size"), fsys, {})
             ELSE LET w == LocalWriteFile(fsys, v.value, markdown)
                  IN Outcome(w.res, w.fs,
                             {StorageCall("writeFile", v.value, getFullPath(v.value))})

deleteMarkdownContent(fsys, filePath) ==
  LET v == validateFilePath(filePath)
  IN IF v.tag = "throw" THEN Outcome(v, fsys, {})
     ELSE LET d == LocalDeleteFile(fsys, v.value)
          IN Outcome(d.res, d.fs,
                     {StorageCall("deleteFile", v.value, getFullPath(v.value))})

listMarkdownFiles(fsys, directory) ==
  LET v == IF directory # <<>> THEN validateFilePath(directory) ELSE Return(<<>>)
  IN IF v.tag = "throw" THEN Outcome(v, fsys, {})
     ELSE LET l == LocalListFiles(fsys, v.value)
          IN Outcome(Return({e.path : e \in {x \in l.res.value : x.type = "file"}}), fsys,
                     {StorageCall("listFiles", v.value, getFullPath(v.value))})

markdownFileExists(fsys, filePath) ==
  LET v == validateFilePath(filePath)
  IN IF v.tag = "throw" THEN Outcome(v, fsys, {})
     ELSE Outcome(LocalExists(fsys, v.value).res, fsys,
                  {StorageCall("exists", v.value, getFullPath(v.value))})

listDirectory(fsys, directory) ==
  Outcome(LocalListFiles(fsys, directory).res, fsys,
          {StorageCall("listFiles", directory, getFullPath(directory))})

\* file.path.split("/").pop().replace(/\.md$/, "")
SlugOf(path) ==
  LET name == Last(Split(path, SEP))
  IN IF EndsWith(name, MdSuffix) THEN SubSeq(name, 1, Len(name) - 2) ELSE name

getCollectionItems(fsys, folderName) ==
  LET entries == LocalListFiles(fsys, folderName).res.value
      mdFiles == {e \in entries : e.type = "file" /\ EndsWith(e.path, MdSuffix)}
      calls == {StorageCall("listFiles", folderName, getFullPath(folderName))}
                 \cup {StorageCall("readFile", e.path, getFullPath(e.path)) : e \in mdFiles}
  IN IF \E e \in mdFiles : LocalReadFile(fsys, e.path).res.tag = "throw"
       THEN Outcome(Throw("ENOENT"), fsys, calls)
     ELSE Outcome(Return({[content |-> parseMarkdown(LocalReadFile(fsys, e.path).res.value).content,
                           data |-> parseMarkdown(LocalReadFile(fsys, e.path).res.value).data,
                           slug |-> SlugOf(e.path)] : e \in mdFiles}),
                  fsys, calls)

Null == [type |-> "null"]

getCollectionItem(fsys, folderName, slug) ==
  LET filePath == folderName \o <<SEP>> \o slug \o MdSuffix
      existsCall == StorageCall("exists", filePath, getFullPath(filePath))
      readCall == StorageCall("readFile", filePath, getFullPath(filePath))
  IN IF ~LocalExists(fsys, filePath).res.value
       THEN Outcome(Return(Null), fsys, {existsCall})
     ELSE LET r == LocalReadFile(fsys, filePath)
          IN IF r.res.tag = "throw" THEN Outcome(Return(Null), fsys, {existsCall, readCall})
             ELSE Outcome(Return([content |-> parseMarkdown(r.res.value).content,
                                  data |-> parseMarkdown(r.res.value).data,
                                  slug |-> slug]),
                          fsys, {existsCall, readCall})

getCollections(fsys, baseDir) ==
  LET entries == LocalListFiles(fsys, baseDir).res.value
      names == {Last(Split(e.path, SEP)) : e \in {x \in entries : x.type = "directory"}}
  IN Outcome(Return({n \in names : n # <<>>}), fsys,
             {StorageCall("listFiles", baseDir, getFullPath(baseDir))})

\* s.replace(pat, "") with a string pattern: the first occurrence is removed
RemoveFirst(s, pat) ==
  IF ~Includes(s, pat) THEN s
  ELSE LET i == Min(Occurrences(s, pat))
       IN SubSeq(s, 1, i - 1) \o SubSeq(s, i + Len(pat), Len(s))

\* `${nameWithoutExt}-${timestamp}.${ext}`
UniqueFileName(fileName, timestamp) ==
  LET ext == Last(Split(fileName, DOT))
      nameWithoutExt == RemoveFirst(fileName, <<DOT>> \o ext)
  IN nameWithoutExt \o <<"-", ToString(timestamp), DOT>> \o ext

uploadFile(fsys, t, fileName, buffer) ==
  LET uniqueFileName == UniqueFileName(fileName, t)
      u == LocalUploadFile(fsys, uniqueFileName, buffer)
  IN Outcome(u.res, u.fs,
             {StorageCall("uploadFile", uniqueFileName,
                          PathJoin(<<Cwd, PublicDir, UploadsDir, uniqueFileName>>))})

----------------------------------------------------------------------------
(* utils/rate-limit.ts *)

MAX_ATTEMPTS == 5
WINDOW_MS == 15 * 60 * 1000

\* !entry || now > entry.resetTime
NoLiveEntry(store, t, identifier) ==
  identifier \notin DOMAIN store \/ t > store[identifier].resetTime

StoreSet(store, identifier, entry) ==
  [x \in DOMAIN store \cup {identifier} |-> IF x = identifier THEN entry ELSE store[x]]

StoreDelete(store, identifier) ==
  [x \in DOMAIN store \ {identifier} |-> store[x]]

\* checkRateLimit with the limit test off by one (count > MAX_ATTEMPTS)
checkRateLimitOffByOne(store, t, identifier) ==
  IF NoLiveEntry(store, t, identifier)
    THEN [store |-> StoreSet(store, identifier, [count |-> 0, resetTime |-> t + WINDOW_MS]),
          result |-> [isLimited |-> FALSE, remaining |-> MAX_ATTEMPTS,
                      resetTime |-> t + WINDOW_MS]]
  ELSE IF store[identifier].count > MAX_ATTEMPTS
    THEN [store |-> store,
          result |-> [isLimited |-> TRUE, remaining |-> 0,
                      resetTime |-> store[identifier].resetTime]]
  ELSE [store |-> store,
        result |-> [isLimited |-> FALSE,
                    remaining |-> MAX_ATTEMPTS - store[identifier].count,
                    resetTime |-> store[identifier].resetTime]]

\* checkRateLimit restarting the window of a limited identifier at every check
checkRateLimitSliding(store, t, identifier) ==
  IF NoLiveEntry(store, t, identifier)
    THEN [store |-> StoreSet(store, identifier, [count |-> 0, resetTime |-> t + WINDOW_MS]),
          result |-> [isLimited |-> FALSE, remaining |-> MAX_ATTEMPTS,
                      resetTime |-> t + WINDOW_MS]]
  ELSE IF store[identifier].count >= MAX_ATTEMPTS
    THEN [store |-> StoreSet(store, identifier,
                             [count |-> store[identifier].count,
                              resetTime |-> t + WINDOW_MS]),
          result |-> [isLimited |-> TRUE, remaining |-> 0,
                      resetTime |-> t + WINDOW_MS]]
  ELSE [store |-> store,
        result |-> [isLimited |-> FALSE,
                    remaining |-> MAX_ATTEMPTS - store[identifier].count,
                    resetTime |-> store[identifier].resetTime]]

\* returns the result object and the store after the call
checkRateLimit(store, t, identifier) ==
  IF NoLiveEntry(store, t, identifier)
    THEN [store |-> StoreSet(store, identifier, [count |-> 0, resetTime |-> t + WINDOW_MS]),
          result |-> [isLimited |-> FALSE, remaining |-> MAX_ATTEMPTS,
                      resetTime |-> t + WINDOW_MS]]
  ELSE IF store[identifier].count >= MAX_ATTEMPTS
    THEN [store |-> store,
          result |-> [isLimited |-> TRUE, remaining |-> 0,
                      resetTime |-> store[identifier].resetTime]]
  ELSE [store |-> store,
        result |-> [isLimited |-> FALSE,
                    remaining |-> MAX_ATTEMPTS - store[identifier].count,
                    resetTime |-> store[identifier].resetTime]]

incrementRateLimit(store, t, identifier) ==
  IF NoLiveEntry(store, t, identifier)
    THEN StoreSet(store, identifier, [count |-> 1, resetTime |-> t + WINDOW_MS])
  ELSE StoreSet(store, identifier,
                [count |-> store[identifier].count + 1,
                 resetTime |-> store[identifier].resetTime])

resetRateLimit(store, identifier) == StoreDelete(store, identifier)

\* cleanupRateLimitStore deleting an entry already in the millisecond of its
\* resetTime (now >= entry.resetTime)
cleanupRateLimitStoreEager(store, t) ==
  [x \in {y \in DOMAIN store : ~(t >= store[y].resetTime)} |-> store[x]]

cleanupRateLimitStore(store, t) ==
  [x \in {y \in DOMAIN store : ~(t > store[y].resetTime)} |-> store[x]]

----------------------------------------------------------------------------
(* Inputs and initial values *)

Identifiers == {"10.0.0.1", "10.0.0.2"}

AdminName == <<"a">>
AdminPass == <<"p">>
GoodSecret == Rep("s", MIN_SECRET_LENGTH)
OtherSecret == Rep("k", MIN_SECRET_LENGTH)

ShortStrings(c) == {Rep(c, n) : n \in 0..MaxShort}

UsernameInputs ==
  ShortStrings("a") \cup
  {Rep("a", MAX_USERNAME_LENGTH), Rep("a", MAX_USERNAME_LENGTH + 1),
   <<"a", "@">>, <<"b">>, <<"a", "_", "-", "0", "Z">>}

PasswordInputs ==
  ShortStrings("p") \cup
  {Rep("p", MAX_PASSWORD_LENGTH), Rep("p", MAX_PASSWORD_LENGTH + 1),
   <<"q">>, <<"p", " ", "@">>, <<SUR>>, <<REP>>}

EnvUsernames ==
  {Undefined, Str(<<>>), Str(AdminName), Str(Rep("a", MAX_USERNAME_LENGTH)),
   Str(Rep("a", MAX_USERNAME_LENGTH + 1)), Str(<<"a", "@">>)}

EnvPasswords ==
  {Undefined, Str(<<>>), Str(AdminPass), Str(Rep("p", MAX_PASSWORD_LENGTH)),
   Str(Rep("p", MAX_PASSWORD_LENGTH + 1)), Str(<<"p", " ", "@">>), Str(<<REP>>)}

EnvSecrets ==
  {Undefined, Str(<<>>), Str(Rep("s", MIN_SECRET_LENGTH - 1)), Str(GoodSecret)}

Env(u, p, s) == [CMS_ADMIN_USERNAME |-> u, CMS_ADMIN_PASSWORD |-> p,
                 CMS_SESSION_SECRET |-> s]

DefaultEnv == Env(Str(AdminName), Str(AdminPass), Str(GoodSecret))

SESSION_MS == SESSION_DURATION * 1000
Horizon == 2 * SESSION_MS + WINDOW_MS

\* a streak of n consecutive failed logins inside one window, and the streak
\* of an identifier whose login requests overlapped, or were not all failed
\* logins inside one window
Streak(n) == [clean |-> TRUE, n |-> n]
Broken == [clean |-> FALSE, n |-> 0]

NoCall == [fn |-> "none"]
NoResp == [handler |-> "none"]
EmptyStore == [x \in {} |-> 0]

----------------------------------------------------------------------------
(* Initial values of the parts that a specification leaves alone *)

\* the project directory: an empty-ish content root with one item, and one
\* markdown file that lies outside the content root
W(w) == <<w>>
ContentRootKey == <<W("app"), W("public"), W("content")>>
TitleData == (<<"a">> :> Str(<<"b">>))
PostDoc == [data |-> TitleData, body |-> Text(0, <<"body", "\n">>)]
DraftDoc == [data |-> EmptyData, body |-> Text(0, <<"more", "\n">>)]

InitFs ==
  (<<>> :> DirNode)
  @@ (<<W("app")>> :> DirNode)
  @@ (<<W("app"), W("public")>> :> DirNode)
  @@ (ContentRootKey :> DirNode)
  @@ (Append(ContentRootKey, <<"post", DOT, "md">>) :> FileNode(PostDoc))
  @@ (<<W("app"), W("public"), <<"draft", DOT, "md">>>> :> FileNode(DraftDoc))

IdleRest ==
  /\ fs = InitFs
  /\ inflight = [i \in Identifiers |-> 0]
  /\ resp = NoResp
  /\ loggedOut = FALSE
  /\ evals = [i \in Identifiers |-> 0]
  /\ streak = [i \in Identifiers |-> Streak(0)]
  /\ requests = 0

InitGhostRL ==
  /\ incs = [i \in Identifiers |-> 0]
  /\ rolled = [i \in Identifiers |-> FALSE]

\* the clock advances by d milliseconds
Advance(d) ==
  /\ ticks < MaxTicks
  /\ now + d <= Horizon
  /\ now' = now + d
  /\ ticks' = ticks + 1

----------------------------------------------------------------------------
(* SpecMarkdown: stringifyMarkdown and parseMarkdown called directly on    *)
(* sanitized data and on contents with and without a final newline         *)

MaxText == 3       \* symbols of a markdown content

MarkdownData ==
  {sanitizeFrontmatter(d) :
     d \in {EmptyData, TitleData, (<<"Z">> :> Num(1)),
            (<<"a">> :> Str(<<"b", NUL>>) @@ <<"Z", "0">> :> Num(1))}}

MarkdownTexts ==
  {Text(0, t) : t \in UNION {[1..n -> {"body", "\n"}] : n \in 0..MaxText}}

InitMarkdown ==
  /\ env = DefaultEnv
  /\ now = 0
  /\ ticks = 0
  /\ rateLimitStore = EmptyStore
  /\ issued = {}
  /\ call = NoCall
  /\ InitGhostRL
  /\ IdleRest

PureRest ==
  UNCHANGED <<env, now, ticks, rateLimitStore, fs, issued, inflight, resp,
              incs, rolled, evals, streak, loggedOut, requests>>

CallStringifyMarkdown ==
  /\ \E d \in MarkdownData, c \in MarkdownTexts :
       call' = [fn |-> "stringifyMarkdown", args |-> <<d, c>>,
                result |-> stringifyMarkdown(d, c)]
  /\ PureRest

\* parseMarkdown applied to what the last stringifyMarkdown returned
CallParseMarkdown ==
  /\ call.fn = "stringifyMarkdown"
  /\ call' = [fn |-> "parseMarkdown", args |-> <<call.result>>, of |-> call.args,
              result |-> parseMarkdown(call.result)]
  /\ PureRest

NextMarkdown == CallStringifyMarkdown \/ CallParseMarkdown

SpecMarkdown == InitMarkdown /\ [][NextMarkdown]_vars

----------------------------------------------------------------------------
(* SpecFilePath: validateFilePath called on every short path string *)

MaxPath == 5       \* symbols of a path string

PathSymbols == {SEP, BSL, DOT, NUL, "<", "a", "md", "CON"}

FilePathInputs ==
  UNION {[1..n -> PathSymbols] : n \in 0..MaxPath}
    \cup {<<"blog", SEP, "post", DOT, "md">>, <<"NUL", SEP, "post", DOT, "md">>,
          <<"blog", SEP, "con", DOT, "md">>, <<"con", DOT, "md">>,
          <<DOT, DOT, SEP, "etc", SEP, "passwd">>,
          <<"blog", SEP, DOT, DOT, SEP, DOT, DOT, SEP, "etc", SEP, "passwd">>}

\* the argument is drawn first, then the function is applied to it
InitFilePath ==
  /\ env = DefaultEnv
  /\ now = 0
  /\ ticks = 0
  /\ rateLimitStore = EmptyStore
  /\ issued = {}
  /\ call \in {[fn |-> "argument", args |-> <<p>>] : p \in FilePathInputs}
  /\ InitGhostRL
  /\ IdleRest

CallValidateFilePath ==
  /\ call.fn = "argument"
  /\ call' = [fn |-> "validateFilePath", args |-> call.args,
              result |-> validateFilePath(call.args[1])]
  /\ PureRest

NextFilePath == CallValidateFilePath

SpecFilePath == InitFilePath /\ [][NextFilePath]_vars

----------------------------------------------------------------------------
(* SpecFrontmatter: sanitizeFrontmatter called on nested data objects *)

MaxDepth == 2      \* nesting of the values of a data object

OkKey == <<"a", "-", "Z">>
BadKey == <<"b", "@">>

FrontmatterLeaves == {Str(<<"a", NUL, "b">>), Num(1), Bool(TRUE), [type |-> "null"]}

\* the values nested at most d deep: arrays of at most one item and objects
\* of at most one key, on either kind of key
RECURSIVE FrontmatterValues(_)
FrontmatterValues(d) ==
  IF d = 0 THEN FrontmatterLeaves
  ELSE LET inner == FrontmatterValues(d - 1)
       IN FrontmatterLeaves
            \cup {Arr(<<>>)} \cup {Arr(<<v>>) : v \in inner}
            \cup {[type |-> "object", map |-> EmptyData]}
            \cup {[type |-> "object", map |-> (k :> v)] : k \in {OkKey, BadKey}, v \in inner}

FrontmatterInputs ==
  LET values == FrontmatterValues(MaxDepth)
  IN {d1 @@ d2 : d1 \in {EmptyData} \cup {(OkKey :> v) : v \in values},
                 d2 \in {EmptyData} \cup {(BadKey :> v) : v \in values}}

InitFrontmatter ==
  /\ env = DefaultEnv
  /\ now = 0
  /\ ticks = 0
  /\ rateLimitStore = EmptyStore
  /\ issued = {}
  /\ call \in {[fn |-> "argument", args |-> <<d>>] : d \in FrontmatterInputs}
  /\ InitGhostRL
  /\ IdleRest

CallSanitizeFrontmatter ==
  /\ call.fn = "argument"
  /\ call' = [fn |-> "sanitizeFrontmatter", args |-> call.args,
              result |-> sanitizeFrontmatter(call.args[1])]
  /\ PureRest

NextFrontmatter == CallSanitizeFrontmatter

SpecFrontmatter == InitFrontmatter /\ [][NextFrontmatter]_vars

----------------------------------------------------------------------------
(* SpecCred: direct calls of validateCredentials under every credential   *)
(* configuration                                                           *)

CredEnvs == {Env(u, p, Str(GoodSecret)) : u \in EnvUsernames, p \in EnvPasswords}

InitCred ==
  /\ env \in CredEnvs
  /\ now = 0
  /\ ticks = 0
  /\ rateLimitStore = EmptyStore
  /\ issued = {}
  /\ call = NoCall
  /\ InitGhostRL
  /\ IdleRest

CallValidateCredentials ==
  /\ \E u \in UsernameInputs, p \in PasswordInputs :
       call' = [fn |-> "validateCredentials", username |-> u, password |-> p,
                result |-> validateCredentials(env, Str(u), Str(p))]
  /\ UNCHANGED <<env, now, ticks, rateLimitStore, fs, issued, inflight, resp,
                 incs, rolled, evals, streak, loggedOut, requests>>

NextCred == CallValidateCredentials

SpecCred == InitCred /\ [][NextCred]_vars

----------------------------------------------------------------------------
(* SpecSession: direct calls of the exported session functions under every *)
(* secret configuration                                                    *)

MaxIssued == 2     \* tokens created per behaviour

FarFuture == Num(EpochSeconds(Horizon) + 1)

\* tokens nobody obtained from createSession
CraftedTokens ==
  {Garbage,
   Jwt(OtherSecret, Str(AdminName), FarFuture),
   Jwt(Rep("s", MIN_SECRET_LENGTH - 1), Str(AdminName), FarFuture),
   Jwt(GoodSecret, Undefined, FarFuture),
   Jwt(GoodSecret, Str(AdminName), NoExp),
   Jwt(GoodSecret, Str(AdminName), Num(0))}

SessionSteps == {1, SESSION_MS - 1}

SecretEnvs == {Env(Str(AdminName), Str(AdminPass), s) : s \in EnvSecrets}

InitSession ==
  /\ env \in SecretEnvs
  /\ now = 0
  /\ ticks = 0
  /\ rateLimitStore = EmptyStore
  /\ issued = {}
  /\ call = NoCall
  /\ InitGhostRL
  /\ IdleRest

CallCreateSession ==
  /\ Cardinality(issued) < MaxIssued
  /\ \E u \in {AdminName, <<"b">>} :
       LET r == createSession(env, now, Str(u))
       IN /\ call' = [fn |-> "createSession", username |-> u, at |-> now, result |-> r]
          /\ issued' = IF r.tag = "return" THEN issued \cup {r.value} ELSE issued
  /\ UNCHANGED <<env, now, ticks, rateLimitStore, fs, inflight, resp,
                 incs, rolled, evals, streak, loggedOut, requests>>

CallVerifySession ==
  /\ \E token \in issued \cup CraftedTokens :
       call' = [fn |-> "verifySession", token |-> token, at |-> now,
                result |-> verifySession(env, now, token)]
  /\ UNCHANGED <<env, now, ticks, rateLimitStore, fs, issued, inflight, resp,
                 incs, rolled, evals, streak, loggedOut, requests>>

CallGetSessionFromCookies ==
  /\ \E cookie \in {Undefined, EmptyToken} \cup issued \cup CraftedTokens :
       call' = [fn |-> "getSessionFromCookies", token |-> cookie, at |-> now,
                result |-> getSessionFromCookies(env, now, cookie)]
  /\ UNCHANGED <<env, now, ticks, rateLimitStore, fs, issued, inflight, resp,
                 incs, rolled, evals, streak, loggedOut, requests>>

TickSession ==
  /\ \E d \in SessionSteps : Advance(d)
  /\ UNCHANGED <<env, rateLimitStore, fs, issued, inflight, resp, call,
                 incs, rolled, evals, streak, loggedOut, requests>>

NextSession ==
  \/ CallCreateSession
  \/ CallVerifySession
  \/ CallGetSessionFromCookies
  \/ TickSession

SpecSession == InitSession /\ [][NextSession]_vars

----------------------------------------------------------------------------
(* SpecRL: direct calls of the exported rate-limiter functions *)

WindowSteps == {1, WINDOW_MS - 1}

InitRL ==
  /\ env = DefaultEnv
  /\ now = 0
  /\ ticks = 0
  /\ rateLimitStore = EmptyStore
  /\ issued = {}
  /\ call = NoCall
  /\ InitGhostRL
  /\ IdleRest

\* the call on identifier id replaces an entry whose window has expired
Replaces(id) == id \in DOMAIN rateLimitStore /\ now > rateLimitStore[id].resetTime

CallCheckRateLimit ==
  /\ \E id \in Identifiers :
       LET r == checkRateLimit(rateLimitStore, now, id)
           roll == rolled[id] \/ Replaces(id)
       IN /\ rateLimitStore' = r.store
          /\ rolled' = [rolled EXCEPT ![id] = roll]
          /\ call' = [fn |-> "checkRateLimit", id |-> id, at |-> now, result |-> r.result,
                      k |-> incs[id], oneWindow |-> ~roll,
                      afterReset |-> (call.fn = "resetRateLimit" /\ call.id = id)]
  /\ UNCHANGED <<env, now, ticks, fs, issued, inflight, resp, incs, evals, streak, loggedOut, requests>>

CallIncrementRateLimit ==
  /\ \E id \in Identifiers :
       /\ incs[id] < MaxIncr
       /\ rateLimitStore' = incrementRateLimit(rateLimitStore, now, id)
       /\ incs' = [incs EXCEPT ![id] = @ + 1]
       /\ rolled' = [rolled EXCEPT ![id] = @ \/ Replaces(id)]
       /\ call' = [fn |-> "incrementRateLimit", id |-> id]
  /\ UNCHANGED <<env, now, ticks, fs, issued, inflight, resp, evals, streak, loggedOut, requests>>

CallResetRateLimit ==
  /\ \E id \in Identifiers :
       /\ rateLimitStore' = resetRateLimit(rateLimitStore, id)
       /\ incs' = [incs EXCEPT ![id] = 0]
       /\ rolled' = [rolled EXCEPT ![id] = FALSE]
       /\ call' = [fn |-> "resetRateLimit", id |-> id]
  /\ UNCHANGED <<env, now, ticks, fs, issued, inflight, resp, evals, streak, loggedOut, requests>>

\* the setInterval callback
CallCleanupRateLimitStore ==
  /\ rateLimitStore' = cleanupRateLimitStore(rateLimitStore, now)
  /\ rolled' = [id \in Identifiers |-> rolled[id] \/ Replaces(id)]
  /\ call' = [fn |-> "cleanupRateLimitStore"]
  /\ UNCHANGED <<env, now, ticks, fs, issued, inflight, resp, incs, evals, streak, loggedOut, requests>>

TickRL ==
  /\ \E d \in WindowSteps : Advance(d)
  /\ UNCHANGED <<env, rateLimitStore, fs, issued, inflight, resp, call,
                 incs, rolled, evals, streak, loggedOut, requests>>

NextRL ==
  \/ CallCheckRateLimit
  \/ CallIncrementRateLimit
  \/ CallResetRateLimit
  \/ CallCleanupRateLimitStore
  \/ TickRL

SpecRL == InitRL /\ [][NextRL]_vars

----------------------------------------------------------------------------
(* api/handlers.ts: handleLogin and handleLogout *)

\* Math.ceil(x / 1000)
CeilSeconds(x) == -((-x) \div 1000)

\* the parsed request body, or the failure of request.json()
InvalidJson == [kind |-> "invalid"]
LoginBody(username, password) ==
  [kind |-> "json", username |-> username, password |-> password]

GoodLogin == LoginBody(Str(AdminName), Str(AdminPass))
WrongLogin == LoginBody(Str(AdminName), Str(<<"q">>))

LoginBodies ==
  {InvalidJson, GoodLogin, WrongLogin,
   LoginBody(Str(AdminName), Undefined),
   LoginBody(Undefined, Str(AdminPass)),
   LoginBody(Str(<<>>), Str(AdminPass)),
   LoginBody(Str(<<"b">>), Str(AdminPass)),
   LoginBody(Str(<<"b">>), Str(<<"q">>)),
   LoginBody(Str(<<"a", "@">>), Str(AdminPass)),
   LoginBody(Str(Rep("a", MAX_USERNAME_LENGTH + 1)), Str(AdminPass)),
   LoginBody(Str(AdminName), Str(Rep("p", MAX_PASSWORD_LENGTH + 1)))}

LoginResponse(ip, body, status, error) ==
  [handler |-> "login", ip |-> ip, body |-> body, status |-> status, error |-> error,
   retryAfter |-> Undefined, cookie |-> Undefined, at |-> now, failed |-> FALSE,
   streakBefore |-> streak[ip],
   live |-> ~NoLiveEntry(rateLimitStore, now, ip)]

InflightTotal(f, ids) == LET RECURSIVE Sum(_)
                             Sum(S) == IF S = {} THEN 0
                                       ELSE LET x == CHOOSE y \in S : TRUE
                                            IN f[x] + Sum(S \ {x})
                         IN Sum(ids)

\* handleLogin up to `await request.json()`: the identifier is checked against
\* the rate limiter; a limited request is answered 429, where Date.now() is
\* read a second time, d milliseconds after the check
LoginStart(ip) ==
  LET r == checkRateLimit(rateLimitStore, now, ip)
      fresh == NoLiveEntry(rateLimitStore, now, ip)
      overlaps == inflight[ip] > 0
  IN /\ rateLimitStore' = r.store
     /\ IF r.result.isLimited
          THEN /\ \E d \in {0, 1} :
                    /\ d = 1 => (ticks < MaxTicks /\ now + d <= Horizon)
                    /\ now' = now + d
                    /\ ticks' = ticks + d
                    /\ resp' = [LoginResponse(ip, Undefined, 429, "Too many login attempts. Please try again later.")
                                  EXCEPT !.retryAfter =
                                           CeilSeconds(r.result.resetTime - (now + d)),
                                         !.streakBefore =
                                           IF overlaps THEN Broken ELSE streak[ip]]
               /\ UNCHANGED <<inflight, evals, streak>>
          ELSE /\ InflightTotal(inflight, Identifiers) < MaxInflight
               /\ inflight' = [inflight EXCEPT ![ip] = @ + 1]
               /\ evals' = [evals EXCEPT ![ip] = IF fresh THEN 0 ELSE @]
               /\ streak' = [streak EXCEPT ![ip] = IF overlaps THEN Broken
                                                   ELSE IF fresh THEN Streak(0) ELSE @]
               /\ UNCHANGED <<now, ticks, resp>>
     /\ UNCHANGED <<env, fs, issued, call, incs, rolled, loggedOut>>

\* handleLogin from the return of `await request.json()` on: the body is
\* destructured, the credentials are evaluated, the limiter is incremented or
\* reset and the session cookie is set
LoginFinish(ip, body) ==
  LET others == inflight[ip] > 1
      expired == NoLiveEntry(rateLimitStore, now, ip)
      answer(status, error) ==
        /\ resp' = LoginResponse(ip, body, status, error)
        /\ streak' = [streak EXCEPT ![ip] = Broken]
        /\ UNCHANGED <<rateLimitStore, issued, evals>>
  IN /\ inflight[ip] > 0
     /\ inflight' = [inflight EXCEPT ![ip] = @ - 1]
     /\ IF body.kind = "invalid"
          THEN answer(500, "Authentication service temporarily unavailable")
        ELSE IF Falsy(body.username) \/ Falsy(body.password)
          THEN answer(400, "Username and password are required")
        ELSE LET isValid == validateCredentials(env, body.username, body.password)
             IN IF isValid.tag = "throw"
                  THEN answer(500, "Authentication service temporarily unavailable")
                ELSE IF ~isValid.value
                  THEN /\ rateLimitStore' = incrementRateLimit(rateLimitStore, now, ip)
                       /\ evals' = [evals EXCEPT ![ip] = IF expired THEN 1 ELSE @ + 1]
                       /\ streak' = [streak EXCEPT ![ip] =
                                       IF ~@.clean \/ expired THEN Broken
                                       ELSE Streak(@.n + 1)]
                       /\ resp' = [LoginResponse(ip, body, 401, "Invalid credentials")
                                     EXCEPT !.failed = TRUE]
                       /\ UNCHANGED issued
                ELSE LET token == createSession(env, now, body.username)
                     IN /\ rateLimitStore' = resetRateLimit(rateLimitStore, ip)
                        /\ evals' = [evals EXCEPT ![ip] = 0]
                        /\ streak' = [streak EXCEPT ![ip] = IF others THEN Broken
                                                            ELSE Streak(0)]
                        /\ IF token.tag = "throw"
                             THEN /\ resp' = LoginResponse(ip, body, 500,
                                       "Authentication service temporarily unavailable")
                                  /\ UNCHANGED issued
                             ELSE /\ Cardinality(issued \cup {token.value}) <= MaxIssued
                                  /\ resp' = [LoginResponse(ip, body, 200, "")
                                                EXCEPT !.cookie = token.value]
                                  /\ issued' = issued \cup {token.value}
     /\ UNCHANGED <<env, now, ticks, fs, call, incs, rolled, loggedOut>>

\* handleLogout answers with a cookie deletion and touches no server state
handleLogout ==
  /\ resp' = [handler |-> "logout", status |-> 200, cookie |-> Undefined, at |-> now]
  /\ loggedOut' = TRUE
  /\ UNCHANGED <<env, now, ticks, rateLimitStore, fs, issued, inflight, call,
                 incs, rolled, evals, streak>>

----------------------------------------------------------------------------
(* api/handlers.ts and api/upload.ts: the handlers that require a session *)

ProtectedHandlers == {"getContent", "saveContent", "deleteContent", "listFiles", "upload"}

\* a JSON object and a JSON string of a request body
Obj(map) == [type |-> "object", map |-> map]
Txt(t) == [type |-> "string", t |-> t]
SaveBody(data, content) == [kind |-> "json", data |-> data, content |-> content]

\* the file of a multipart form
FormFile(name, buffer) == [type |-> "file", name |-> name, buffer |-> buffer]

\* the item addressed by a request existed when the request arrived
ItemExists(filePath) ==
  /\ validateFilePath(filePath).tag = "return"
  /\ IsFile(fs, getFullPath(validateFilePath(filePath).value))

ContentResponse(handler, cookie, target, session, status, error, calls) ==
  [handler |-> handler, cookie |-> cookie, target |-> target, session |-> session,
   status |-> status, error |-> error, calls |-> calls, at |-> now,
   afterLogout |-> loggedOut,
   existed |-> handler = "getContent" /\ ItemExists(target)]

\* The frame of every protected handler: the session is read from the cookie
\* first; without one the answer is 401; the operation runs inside the try
\* block, and whatever is thrown there is answered 500.
\* early: the answer given before the operation runs, or NoResp
\* o: the outcome of the content operation
Protected(handler, cookie, target, failure, early, o) ==
  LET session == getSessionFromCookies(env, now, cookie)
  IN IF session.tag = "throw"
       THEN /\ resp' = ContentResponse(handler, cookie, target, NoSession, 500, failure, {})
            /\ fs' = fs
     ELSE IF session.value = NoSession
       THEN /\ resp' = ContentResponse(handler, cookie, target, NoSession,
                                       401, "Unauthorized", {})
            /\ fs' = fs
     ELSE IF early # NoResp
       THEN /\ resp' = ContentResponse(handler, cookie, target, session.value,
                                       early.status, early.error, {})
            /\ fs' = fs
     ELSE IF o.res.tag = "throw"
       THEN /\ resp' = ContentResponse(handler, cookie, target, session.value,
                                       500, failure, o.calls)
            /\ fs' = o.fs
     ELSE /\ resp' = ContentResponse(handler, cookie, target, session.value,
                                     200, "", o.calls)
          /\ fs' = o.fs

\* handleGetContent with the session check left out
handleGetContentNoSession(cookie, filePath) ==
  LET o == getMarkdownContent(fs, filePath)
  IN /\ resp' = ContentResponse("getContent", cookie, filePath, NoSession,
                                IF o.res.tag = "throw" THEN 500 ELSE 200,
                                IF o.res.tag = "throw" THEN "Failed to read content" ELSE "",
                                o.calls)
     /\ fs' = o.fs
     /\ UNCHANGED <<env, now, ticks, rateLimitStore, issued, inflight, call,
                    incs, rolled, evals, streak, loggedOut>>

handleGetContent(cookie, filePath) ==
  /\ Protected("getContent", cookie, filePath, "Failed to read content", NoResp,
               getMarkdownContent(fs, filePath))
  /\ UNCHANGED <<env, now, ticks, rateLimitStore, issued, inflight, call,
                 incs, rolled, evals, streak, loggedOut>>

\* data || {} and content || ""
handleSaveContent(cookie, filePath, body) ==
  /\ Protected("saveContent", cookie, filePath, "Failed to save content",
               IF body.kind = "invalid"
                 THEN [status |-> 500, error |-> "Failed to save content"]
                 ELSE NoResp,
               saveMarkdownContent(fs, filePath,
                  IF body.data.type = "undefined" THEN EmptyData ELSE body.data.map,
                  IF body.content.type = "undefined" THEN EmptyText ELSE body.content.t))
  /\ UNCHANGED <<env, now, ticks, rateLimitStore, issued, inflight, call,
                 incs, rolled, evals, streak, loggedOut>>

handleDeleteContent(cookie, filePath) ==
  /\ Protected("deleteContent", cookie, filePath, "Failed to delete content", NoResp,
               deleteMarkdownContent(fs, filePath))
  /\ UNCHANGED <<env, now, ticks, rateLimitStore, issued, inflight, call,
                 incs, rolled, evals, streak, loggedOut>>

handleListFiles(cookie, directory) ==
  /\ Protected("listFiles", cookie, directory, "Failed to list files", NoResp,
               listDirectory(fs, directory))
  /\ UNCHANGED <<env, now, ticks, rateLimitStore, issued, inflight, call,
                 incs, rolled, evals, streak, loggedOut>>

\* file: the "file" field of the form, or Undefined
handleUpload(cookie, file) ==
  /\ Protected("upload", cookie, IF file.type = "undefined" THEN <<>> ELSE file.name,
               "Failed to upload file",
               IF file.type = "undefined"
                 THEN [status |-> 400, error |-> "No file provided"]
                 ELSE NoResp,
               uploadFile(fs, now, file.name, file.buffer))
  /\ UNCHANGED <<env, now, ticks, rateLimitStore, issued, inflight, call,
                 incs, rolled, evals, streak, loggedOut>>

----------------------------------------------------------------------------
(* SpecLogin: concurrent login requests against the rate limiter *)

LoginEnvs == {DefaultEnv, Env(Str(AdminName), Str(AdminPass), Str(Rep("s", MIN_SECRET_LENGTH - 1)))}

\* a deployment without admin credentials
NoAdminEnv == Env(Undefined, Undefined, Str(GoodSecret))

InitLogin ==
  /\ env \in LoginEnvs \cup {NoAdminEnv}
  /\ now = 0
  /\ ticks = 0
  /\ rateLimitStore = EmptyStore
  /\ issued = {}
  /\ call = NoCall
  /\ InitGhostRL
  /\ IdleRest

\* the addresses that send login requests
LoginIps == {"10.0.0.1"}

StartLogin ==
  /\ \E ip \in LoginIps : LoginStart(ip)
  /\ UNCHANGED requests

FinishLogin ==
  /\ \E ip \in LoginIps : \E body \in LoginBodies : LoginFinish(ip, body)
  /\ UNCHANGED requests

\* the setInterval callback of rate-limit.ts
CleanupTimer ==
  /\ rateLimitStore' = cleanupRateLimitStore(rateLimitStore, now)
  /\ UNCHANGED <<env, now, ticks, fs, issued, inflight, resp, call,
                 incs, rolled, evals, streak, loggedOut, requests>>

TickLogin ==
  /\ \E d \in WindowSteps : Advance(d)
  /\ UNCHANGED <<env, rateLimitStore, fs, issued, inflight, resp, call,
                 incs, rolled, evals, streak, loggedOut, requests>>

NextLogin ==
  \/ StartLogin
  \/ FinishLogin
  \/ CleanupTimer
  \/ TickLogin

SpecLogin == InitLogin /\ [][NextLogin]_vars

----------------------------------------------------------------------------
(* SpecContent: direct calls of the exported content functions *)

PostPath == <<"post", DOT, "md">>
BlogPostPath == <<"blog", SEP, "post", DOT, "md">>
DraftPath == <<DOT, DOT, SEP, "draft", DOT, "md">>

DirectPaths ==
  {PostPath, BlogPostPath, DraftPath,
   <<DOT, SEP, "post", DOT, "md">>,
   <<"blog", SEP, DOT, DOT, SEP, DOT, DOT, SEP, "draft", DOT, "md">>,
   <<SEP, "etc", SEP, "passwd">>,
   <<"post", NUL, DOT, "md">>,
   <<"con", DOT, "md">>,
   <<"blog">>}

DirectDirectories == {<<>>, <<"blog">>, <<DOT, DOT>>, <<"blog", SEP, DOT, DOT, SEP, DOT, DOT>>}

DirectSlugs == {<<"post">>, <<"draft">>}

DirectData == {TitleData, (<<"a", "@">> :> Str(<<"b">>))}

\* a short content, and a content of one byte less than the ceiling: with no
\* frontmatter it serializes to exactly MAX_FILE_SIZE bytes, with frontmatter
\* to more
DirectTexts == {Text(0, <<"more">>), Text(MAX_FILE_SIZE - 1, <<"\n">>)}

InitContent ==
  /\ env = DefaultEnv
  /\ now = 0
  /\ ticks = 0
  /\ rateLimitStore = EmptyStore
  /\ issued = {}
  /\ call = NoCall
  /\ InitGhostRL
  /\ IdleRest

\* the call record of a content function, and the file system after the call
Called(fn, args, o) ==
  /\ call' = [fn |-> fn, args |-> args, result |-> o.res, calls |-> o.calls]
  /\ fs' = o.fs
  /\ UNCHANGED <<env, now, ticks, rateLimitStore, issued, inflight, resp,
                 incs, rolled, evals, streak, loggedOut, requests>>

CallGetMarkdownContent ==
  \E p \in DirectPaths : Called("getMarkdownContent", <<p>>, getMarkdownContent(fs, p))

CallSaveMarkdownContent ==
  \E p \in DirectPaths, d \in DirectData, c \in DirectTexts :
    Called("saveMarkdownContent", <<p, d, c>>, saveMarkdownContent(fs, p, d, c))

CallDeleteMarkdownContent ==
  \E p \in DirectPaths : Called("deleteMarkdownContent", <<p>>, deleteMarkdownContent(fs, p))

CallListMarkdownFiles ==
  \E d \in DirectDirectories : Called("listMarkdownFiles", <<d>>, listMarkdownFiles(fs, d))

CallMarkdownFileExists ==
  \E p \in DirectPaths : Called("markdownFileExists", <<p>>, markdownFileExists(fs, p))

CallListDirectory ==
  \E d \in DirectDirectories : Called("listDirectory", <<d>>, listDirectory(fs, d))

CallGetCollectionItems ==
  \E d \in DirectDirectories : Called("getCollectionItems", <<d>>, getCollectionItems(fs, d))

CallGetCollectionItem ==
  \E d \in DirectDirectories, s \in DirectSlugs :
    Called("getCollectionItem", <<d, s>>, getCollectionItem(fs, d, s))

CallGetCollections ==
  \E d \in DirectDirectories : Called("getCollections", <<d>>, getCollections(fs, d))

NextContent ==
  \/ CallGetMarkdownContent
  \/ CallSaveMarkdownContent
  \/ CallDeleteMarkdownContent
  \/ CallListMarkdownFiles
  \/ CallMarkdownFileExists
  \/ CallListDirectory
  \/ CallGetCollectionItems
  \/ CallGetCollectionItem
  \/ CallGetCollections

SpecContent == InitContent /\ [][NextContent]_vars

----------------------------------------------------------------------------
(* Spec: the HTTP API of one deployment: login, logout and the protected   *)
(* content handlers, with the clock running past the session lifetime      *)

MaxUploads == 1    \* files in public/uploads
MaxRequests == 3   \* requests received per behaviour

\* cookies that no login has set
ForgedCookies == {Garbage, Jwt(OtherSecret, Str(AdminName), FarFuture)}

Cookies == {Undefined} \cup ForgedCookies \cup issued

RoutePaths == {PostPath, BlogPostPath, DraftPath}

RouteDirectories == {<<>>, <<DOT, DOT>>}

SaveBodies ==
  {InvalidJson, SaveBody(Undefined, Undefined),
   SaveBody(Obj(TitleData), Txt(Text(0, <<"more">>)))}

FormFiles == {Undefined, FormFile(<<"pic", DOT, "png">>, DraftDoc)}

ApiLoginBodies == {GoodLogin, WrongLogin}

Uploaded == {k \in DOMAIN fs : StartsWith(k, Key(PathJoin(<<Cwd, PublicDir, UploadsDir>>)))
                               /\ fs[k].kind = "file"}

Init ==
  /\ env \in LoginEnvs
  /\ now = 0
  /\ ticks = 0
  /\ rateLimitStore = EmptyStore
  /\ issued = {}
  /\ call = NoCall
  /\ InitGhostRL
  /\ IdleRest

\* a request arrives
Receive ==
  /\ requests < MaxRequests
  /\ requests' = requests + 1

PostLogin ==
  /\ Receive
  /\ \E ip \in LoginIps : LoginStart(ip)

PostLoginBody ==
  /\ \E ip \in LoginIps : \E body \in ApiLoginBodies : LoginFinish(ip, body)
  /\ UNCHANGED requests

PostLogout ==
  /\ Receive
  /\ handleLogout

GetContent ==
  /\ Receive
  /\ \E cookie \in Cookies, p \in RoutePaths : handleGetContent(cookie, p)

PostContent ==
  /\ Receive
  /\ \E cookie \in Cookies, p \in RoutePaths, body \in SaveBodies :
       handleSaveContent(cookie, p, body)

DeleteContent ==
  /\ Receive
  /\ \E cookie \in Cookies, p \in RoutePaths : handleDeleteContent(cookie, p)

ListFiles ==
  /\ Receive
  /\ \E cookie \in Cookies, d \in RouteDirectories : handleListFiles(cookie, d)

PostUpload ==
  /\ Receive
  /\ Cardinality(Uploaded) < MaxUploads
  /\ \E cookie \in Cookies, file \in FormFiles : handleUpload(cookie, file)

Tick ==
  /\ \E d \in SessionSteps : Advance(d)
  /\ UNCHANGED <<env, rateLimitStore, fs, issued, inflight, resp, call,
                 incs, rolled, evals, streak, loggedOut, requests>>

Next ==
  \/ PostLogin
  \/ PostLoginBody
  \/ PostLogout
  \/ GetContent
  \/ PostContent
  \/ DeleteContent
  \/ ListFiles
  \/ PostUpload
  \/ Tick

Spec == Init /\ [][Next]_vars

----------------------------------------------------------------------------
(* content/storage.ts: GitHubStorage, CloudflareR2Storage and               *)
(* getStorageProvider.  A remote store maps the path of every stored file   *)
(* to its node; `up` says whether the backend answers the requests of the   *)
(* call.                                                                    *)

\* Buffer.from(content, "utf-8").toString("utf-8"): what a string is after
\* it was written as UTF-8 and read back
Utf8String(content) ==
  [i \in DOMAIN content |-> IF content[i] = SUR THEN REP ELSE content[i]]

Unchanged(store, res) == [res |-> res, fs |-> store]

\* the directories of a remote store are the proper prefixes of its keys
RemoteIsDir(store, p) == \E k \in DOMAIN store : StartsWith(k, p \o <<SEP>>)

\* the names directly under the prefix dir/ and whether each is a file
RemoteItems(store, dir) ==
  LET pre == dir \o <<SEP>>
      rests == {SubSeq(k, Len(pre) + 1, Len(k)) : k \in {x \in DOMAIN store : StartsWith(x, pre)}}
  IN {[name |-> Split(r, SEP)[1], type |-> IF Includes(r, <<SEP>>) THEN "dir" ELSE "file"]
        : r \in {x \in rests : x # <<>>}}

getGitHubPath(filePath) == BaseDir \o <<SEP>> \o filePath

\* octokit.repos.getContent: a file object, an array for a directory, or an
\* HTTP error (404 for a path that is not in the tree)
reposGetContent(tree, ghPath, up) ==
  LET at == IF ghPath # <<>> /\ Last(ghPath) = SEP THEN SubSeq(ghPath, 1, Len(ghPath) - 1)
            ELSE ghPath
  IN IF ~up THEN Throw("HttpError")
     ELSE IF at \in DOMAIN tree
       THEN Return([isArray |-> FALSE, content |-> tree[at].content, sha |-> at])
     ELSE IF RemoteIsDir(tree, at)
       THEN Return([isArray |-> TRUE, items |-> RemoteItems(tree, at)])
     ELSE Throw("Not Found")

\* octokit.repos.createOrUpdateFileContents: a blob cannot take the place of
\* a tree, nor lie under a blob
createOrUpdateFileContents(tree, ghPath, content, up) ==
  IF ~up THEN Unchanged(tree, Throw("HttpError"))
  ELSE IF RemoteIsDir(tree, ghPath)
            \/ \E k \in DOMAIN tree : StartsWith(ghPath, k \o <<SEP>>)
    THEN Unchanged(tree, Throw("Unprocessable Entity"))
  ELSE [res |-> Return(TRUE), fs |-> FsPut(tree, ghPath, FileNode(Utf8String(content)))]

GitHubReadFile(tree, filePath, up) ==
  LET got == reposGetContent(tree, getGitHubPath(filePath), up)
  IN IF got.tag = "throw" THEN Unchanged(tree, got)
     ELSE IF ~got.value.isArray THEN Unchanged(tree, Return(got.value.content))
     ELSE Unchanged(tree, Throw("File not found"))

GitHubWriteFile(tree, filePath, content, up) ==
  createOrUpdateFileContents(tree, getGitHubPath(filePath), content, up)

GitHubDeleteFile(tree, filePath, up) ==
  LET githubPath == getGitHubPath(filePath)
      got == reposGetContent(tree, githubPath, up)
  IN IF got.tag = "throw" THEN Unchanged(tree, got)
     ELSE IF ~got.value.isArray
       THEN [res |-> Return(TRUE), fs |-> FsRemove(tree, githubPath)]
     ELSE Unchanged(tree, Return(TRUE))

GitHubListFiles(tree, directory, up) ==
  LET got == reposGetContent(tree, getGitHubPath(directory), up)
  IN IF got.tag = "return" /\ got.value.isArray
       THEN LET entries ==
                  {[path |-> PathJoin(<<directory, item.name>>), name |-> item.name,
                    type |-> IF item.type = "dir" THEN "directory" ELSE "file"]
                     : item \in got.value.items}
            IN Unchanged(tree, Return({e \in entries :
                                         e.type = "directory" \/ EndsWith(e.name, MdSuffix)}))
     ELSE Unchanged(tree, Return({}))

\* exists without its try/catch
GitHubExistsUnguarded(tree, filePath, up) ==
  LET got == reposGetContent(tree, getGitHubPath(filePath), up)
  IN IF got.tag = "throw" THEN Unchanged(tree, got) ELSE Unchanged(tree, Return(TRUE))

GitHubExists(tree, filePath, up) ==
  Unchanged(tree, Return(reposGetContent(tree, getGitHubPath(filePath), up).tag = "return"))

R2BaseDir == <<"content">>

getR2Path(filePath) == R2BaseDir \o <<SEP>> \o filePath

\* GetObjectCommand
GetObject(bucket, objectKey, up) ==
  IF ~up THEN Throw("NetworkError")
  ELSE IF objectKey \notin DOMAIN bucket THEN Throw("NoSuchKey")
  ELSE Return(bucket[objectKey].content)

R2ReadFile(bucket, filePath, up) ==
  LET response == GetObject(bucket, getR2Path(filePath), up)
  IN IF response.tag = "throw" THEN Unchanged(bucket, response)
     ELSE IF response.value = <<>> THEN Unchanged(bucket, Throw("File not found or empty"))
     ELSE Unchanged(bucket, response)

\* PutObjectCommand
R2WriteFile(bucket, filePath, content, up) ==
  IF ~up THEN Unchanged(bucket, Throw("NetworkError"))
  ELSE [res |-> Return(TRUE),
        fs |-> FsPut(bucket, getR2Path(filePath), FileNode(Utf8String(content)))]

\* DeleteObjectCommand: deleting a key that is not in the bucket succeeds
R2DeleteFile(bucket, filePath, up) ==
  IF ~up THEN Unchanged(bucket, Throw("NetworkError"))
  ELSE [res |-> Return(TRUE), fs |-> FsRemove(bucket, getR2Path(filePath))]

\* path.basename
PathBasename(p) == Last(Split(p, SEP))

\* ListObjectsV2Command with Delimiter "/"
R2ListFiles(bucket, directory, up) ==
  LET prefix == IF directory # <<>> THEN R2BaseDir \o <<SEP>> \o directory \o <<SEP>>
                ELSE R2BaseDir \o <<SEP>>
      under == {k \in DOMAIN bucket : StartsWith(k, prefix)}
      Rest(k) == SubSeq(k, Len(prefix) + 1, Len(k))
      CommonPrefixes == {prefix \o Split(Rest(k), SEP)[1] \o <<SEP>>
                           : k \in {x \in under : Includes(Rest(x), <<SEP>>)}}
      Contents == {k \in under : ~Includes(Rest(k), <<SEP>>)}
      NameOf(cp) ==
        RemoveFirst(RemoveFirst(RemoveFirst(cp, R2BaseDir \o <<SEP>>),
                                IF directory # <<>> THEN directory \o <<SEP>> ELSE <<>>),
                    <<SEP>>)
      dirs == {[path |-> IF directory # <<>> THEN directory \o <<SEP>> \o NameOf(cp)
                         ELSE NameOf(cp),
                name |-> NameOf(cp), type |-> "directory"]
                 : cp \in {x \in CommonPrefixes : NameOf(x) # <<>>}}
      files == {[path |-> RemoveFirst(k, R2BaseDir \o <<SEP>>),
                 name |-> PathBasename(RemoveFirst(k, R2BaseDir \o <<SEP>>)),
                 type |-> "file"]
                  : k \in {x \in Contents :
                             x # prefix /\ EndsWith(PathBasename(RemoveFirst(x, R2BaseDir \o <<SEP>>)),
                                                    MdSuffix)}}
  IN IF ~up THEN Unchanged(bucket, Return({}))
     ELSE Unchanged(bucket, Return(dirs \cup files))

R2Exists(bucket, filePath, up) ==
  Unchanged(bucket, Return(GetObject(bucket, getR2Path(filePath), up).tag = "return"))

\* process.env as the storage classes read it
StorageEnv(account, accessKey, secretKey, publicUrl, bucket, nodeEnv, token, repo, branch) ==
  [CLOUDFLARE_ACCOUNT_ID |-> account, CLOUDFLARE_ACCESS_KEY_ID |-> accessKey,
   CLOUDFLARE_SECRET_ACCESS_KEY |-> secretKey, NEXT_PUBLIC_R2_PUBLIC_URL |-> publicUrl,
   R2_BUCKET_NAME |-> bucket, NODE_ENV |-> nodeEnv, GITHUB_TOKEN |-> token,
   GITHUB_REPO |-> repo, GITHUB_BRANCH |-> branch]

\* new LocalStorage()
LocalStorage == Return([kind |-> "local", baseDir |-> BaseDir])

\* new GitHubStorage()
GitHubStorage(e) ==
  IF Falsy(e.GITHUB_TOKEN) \/ Falsy(e.GITHUB_REPO)
    THEN Throw("GITHUB_TOKEN and GITHUB_REPO must be set for production")
  ELSE LET parts == Split(e.GITHUB_REPO.s, SEP)
       IN IF parts[1] = <<>> \/ Len(parts) < 2 \/ parts[2] = <<>>
            THEN Throw("GITHUB_REPO must be in format \"owner/repo\"")
          ELSE Return([kind |-> "github", owner |-> parts[1], repo |-> parts[2],
                       branch |-> IF Falsy(e.GITHUB_BRANCH) THEN <<"main">>
                                  ELSE e.GITHUB_BRANCH.s,
                       baseDir |-> BaseDir])

\* new CloudflareR2Storage()
CloudflareR2Storage(e) ==
  IF \/ Falsy(e.CLOUDFLARE_ACCOUNT_ID)
     \/ Falsy(e.CLOUDFLARE_ACCESS_KEY_ID)
     \/ Falsy(e.CLOUDFLARE_SECRET_ACCESS_KEY)
     \/ Falsy(e.NEXT_PUBLIC_R2_PUBLIC_URL)
     \/ Falsy(e.R2_BUCKET_NAME)
    THEN Throw("CLOUDFLARE_ACCOUNT_ID, CLOUDFLARE_ACCESS_KEY_ID, CLOUDFLARE_SECRET_ACCESS_KEY, NEXT_PUBLIC_R2_PUBLIC_URL, and R2_BUCKET_NAME must be set for Cloudflare R2 storage")
  ELSE LET publicUrl == e.NEXT_PUBLIC_R2_PUBLIC_URL.s
       IN Return([kind |-> "r2", bucketName |-> e.R2_BUCKET_NAME.s,
                  publicUrl |-> IF EndsWith(publicUrl, <<SEP>>)
                                  THEN SubSeq(publicUrl, 1, Len(publicUrl) - 1)
                                ELSE publicUrl,
                  baseDir |-> R2BaseDir])

\* a selection that moves on to the next provider when a constructor throws
getStorageProviderFallback(e) ==
  IF CloudflareR2Storage(e).tag = "return" THEN CloudflareR2Storage(e)
  ELSE IF e.NODE_ENV = Str(<<"production">>) /\ GitHubStorage(e).tag = "return"
    THEN GitHubStorage(e)
  ELSE LocalStorage

getStorageProvider(e) ==
  IF /\ ~Falsy(e.CLOUDFLARE_ACCOUNT_ID)
     /\ ~Falsy(e.CLOUDFLARE_ACCESS_KEY_ID)
     /\ ~Falsy(e.CLOUDFLARE_SECRET_ACCESS_KEY)
    THEN CloudflareR2Storage(e)
  ELSE IF e.NODE_ENV = Str(<<"production">>) /\ ~Falsy(e.GITHUB_TOKEN)
    THEN GitHubStorage(e)
  ELSE LocalStorage

\* the methods of the StorageProvider interface, by the class of the provider;
\* a local file comes back as its UTF-8 encoding decodes
FsError(store) == Unchanged(store, Throw("EIO"))

ProviderReadFile(provider, store, filePath, up) ==
  CASE provider.kind = "local" ->
         IF up THEN LocalReadFile(store, filePath) ELSE FsError(store)
    [] provider.kind = "github" -> GitHubReadFile(store, filePath, up)
    [] provider.kind = "r2" -> R2ReadFile(store, filePath, up)

ProviderWriteFile(provider, store, filePath, content, up) ==
  CASE provider.kind = "local" ->
         IF up THEN LocalWriteFile(store, filePath, Utf8String(content)) ELSE FsError(store)
    [] provider.kind = "github" -> GitHubWriteFile(store, filePath, content, up)
    [] provider.kind = "r2" -> R2WriteFile(store, filePath, content, up)

ProviderDeleteFile(provider, store, filePath, up) ==
  CASE provider.kind = "local" ->
         IF up THEN LocalDeleteFile(store, filePath) ELSE FsError(store)
    [] provider.kind = "github" -> GitHubDeleteFile(store, filePath, up)
    [] provider.kind = "r2" -> R2DeleteFile(store, filePath, up)

ProviderListFiles(provider, store, directory, up) ==
  CASE provider.kind = "local" ->
         IF up THEN LocalListFiles(store, directory) ELSE Unchanged(store, Return({}))
    [] provider.kind = "github" -> GitHubListFiles(store, directory, up)
    [] provider.kind = "r2" -> R2ListFiles(store, directory, up)

ProviderExists(provider, store, filePath, up) ==
  CASE provider.kind = "local" ->
         IF up THEN LocalExists(store, filePath) ELSE Unchanged(store, Return(FALSE))
    [] provider.kind = "github" -> GitHubExists(store, filePath, up)
    [] provider.kind = "r2" -> R2Exists(store, filePath, up)

----------------------------------------------------------------------------
(* SpecProvider: getStorageProvider under every storage configuration *)

Set == Str(<<"v">>)

GitHubRepos ==
  {Undefined, Str(<<"owner", SEP, "repo">>), Str(<<"owner">>), Str(<<SEP, "repo">>),
   Str(<<"owner", SEP>>)}

ProviderEnvs ==
  {StorageEnv(a, k, s, u, b, n, t, r, Undefined) :
     a \in {Undefined, Str(<<>>), Set}, k \in {Undefined, Set}, s \in {Undefined, Set},
     u \in {Undefined, Str(<<"v", SEP>>)}, b \in {Undefined, Set},
     n \in {Undefined, Str(<<"production">>), Str(<<"development">>)},
     t \in {Undefined, Str(<<>>), Set}, r \in GitHubRepos}

InitProvider ==
  /\ env \in ProviderEnvs
  /\ now = 0
  /\ ticks = 0
  /\ rateLimitStore = EmptyStore
  /\ issued = {}
  /\ call = NoCall
  /\ InitGhostRL
  /\ IdleRest

CallGetStorageProvider ==
  /\ call' = [fn |-> "getStorageProvider", result |-> getStorageProvider(env)]
  /\ PureRest

NextProvider == CallGetStorageProvider

SpecProvider == InitProvider /\ [][NextProvider]_vars

----------------------------------------------------------------------------
(* SpecStorage: direct calls of the StorageProvider methods of the provider *)
(* that getStorageProvider selects, with backend failures                   *)

R2Env == StorageEnv(Set, Set, Set, Str(<<"v", SEP>>), Set, Undefined, Undefined, Undefined, Undefined)
GitHubEnv ==
  StorageEnv(Undefined, Undefined, Undefined, Undefined, Undefined, Str(<<"production">>),
             Set, Str(<<"owner", SEP, "repo">>), Undefined)
LocalEnv ==
  StorageEnv(Undefined, Undefined, Undefined, Undefined, Undefined, Undefined, Undefined,
             Undefined, Undefined)

StorageEnvs == {R2Env, GitHubEnv, LocalEnv}

StoragePaths == {PostPath, BlogPostPath, <<"blog">>}
StorageDirectories == {<<>>, <<"blog">>, <<"none">>}
StorageContents == {<<>>, <<"x">>, <<SUR>>}

EmptyRemote == [k \in {} |-> DirNode]

InitStorage ==
  /\ env \in StorageEnvs
  /\ now = 0
  /\ ticks = 0
  /\ rateLimitStore = EmptyStore
  /\ issued = {}
  /\ call = NoCall
  /\ InitGhostRL
  /\ inflight = [i \in Identifiers |-> 0]
  /\ resp = NoResp
  /\ loggedOut = FALSE
  /\ evals = [i \in Identifiers |-> 0]
  /\ streak = [i \in Identifiers |-> Streak(0)]
  /\ requests = 0
  /\ fs = IF getStorageProvider(env).value.kind = "local" THEN InitFs ELSE EmptyRemote

StorageRest ==
  UNCHANGED <<env, now, ticks, rateLimitStore, issued, inflight, resp,
              incs, rolled, evals, streak, loggedOut, requests>>

\* one method call on the selected provider
StorageCalled(method, args, up, o) ==
  /\ call' = [fn |-> method, kind |-> getStorageProvider(env).value.kind, args |-> args,
              up |-> up, result |-> o.res]
  /\ fs' = o.fs
  /\ StorageRest

CallReadFile ==
  \E p \in StoragePaths, up \in BOOLEAN :
     StorageCalled("readFile", <<p>>, up, ProviderReadFile(getStorageProvider(env).value, fs, p, up))

CallWriteFile ==
  \E p \in StoragePaths, c \in StorageContents, up \in BOOLEAN :
     StorageCalled("writeFile", <<p, c>>, up,
                   ProviderWriteFile(getStorageProvider(env).value, fs, p, c, up))

CallDeleteFile ==
  \E p \in StoragePaths, up \in BOOLEAN :
     StorageCalled("deleteFile", <<p>>, up, ProviderDeleteFile(getStorageProvider(env).value, fs, p, up))

CallListFiles ==
  \E d \in StorageDirectories, up \in BOOLEAN :
     StorageCalled("listFiles", <<d>>, up, ProviderListFiles(getStorageProvider(env).value, fs, d, up))

CallExists ==
  \E p \in StoragePaths, up \in BOOLEAN :
     StorageCalled("exists", <<p>>, up, ProviderExists(getStorageProvider(env).value, fs, p, up))

NextStorage ==
  \/ CallReadFile
  \/ CallWriteFile
  \/ CallDeleteFile
  \/ CallListFiles
  \/ CallExists

SpecStorage == InitStorage /\ [][NextStorage]_vars

----------------------------------------------------------------------------
(* SpecUpload: upload requests of one logged-in client, with the            *)
(* millisecond clock advancing between some of them                         *)

MaxUploadRequests == 3   \* upload requests received per behaviour

\* the session cookie of a login at time 0
UploadSession == createSession(DefaultEnv, 0, Str(AdminName)).value

\* file names as a multipart request can carry them
UploadNames ==
  {<<"pic", DOT, "png">>,
   <<DOT, DOT, SEP, "content", SEP, "post", DOT, "md">>,
   <<DOT, DOT, SEP, DOT, DOT, SEP, "x", DOT, "txt">>}

\* a small file and a file of one byte more than MAX_FILE_SIZE
UploadBuffers == {Text(0, <<"more">>), Text(MAX_FILE_SIZE, <<"x">>)}

UploadFiles == {Undefined} \cup {FormFile(n, b) : n \in UploadNames, b \in UploadBuffers}

InitUpload ==
  /\ env = DefaultEnv
  /\ now = 0
  /\ ticks = 0
  /\ rateLimitStore = EmptyStore
  /\ issued = {UploadSession}
  /\ call = NoCall
  /\ InitGhostRL
  /\ IdleRest

UploadRequest ==
  /\ requests < MaxUploadRequests
  /\ requests' = requests + 1
  /\ \E cookie \in {Undefined, UploadSession}, file \in UploadFiles : handleUpload(cookie, file)

TickUpload ==
  /\ Advance(1)
  /\ UNCHANGED <<env, rateLimitStore, fs, issued, inflight, resp, call,
                 incs, rolled, evals, streak, loggedOut, requests>>

NextUpload == UploadRequest \/ TickUpload

SpecUpload == InitUpload /\ [][NextUpload]_vars

----------------------------------------------------------------------------
(* middleware: createAuthMiddleware, and SpecMiddleware: requests passing   *)
(* through the middleware of a deployment, each redirect followed by the    *)
(* client once.  A pathname is a sequence of string pieces, so that         *)
(* startsWith compares characters and not segments.                         *)

DefaultLoginPath == <<SEP, "admin", SEP, "login">>
DefaultProtectedPaths == <<(<<SEP, "admin">>)>>

AuthOptions(loginPath, protectedPaths) ==
  [loginPath |-> loginPath, protectedPaths |-> protectedPaths]

\* options.loginPath || "/admin/login"
LoginPathOf(options) ==
  IF Falsy(options.loginPath) THEN DefaultLoginPath ELSE options.loginPath.s

\* options.protectedPaths || ["/admin"]
ProtectedPathsOf(options) ==
  IF options.protectedPaths.type = "undefined" THEN DefaultProtectedPaths
  ELSE options.protectedPaths.items

PassThrough == [kind |-> "next"]
Redirect(pathname, from) == [kind |-> "redirect", pathname |-> pathname, from |-> from]

\* the middleware without the exemption of the login page
createAuthMiddlewareNoLoginPage(options, e, t, request) ==
  LET loginPath == LoginPathOf(options)
      protectedPaths == ProtectedPathsOf(options)
      pathname == request.pathname
      isProtected == \E i \in 1..Len(protectedPaths) :
                        StartsWith(pathname, protectedPaths[i])
      session == getSessionFromCookies(e, t, request.cookie)
  IN IF ~isProtected THEN Return(PassThrough)
     ELSE IF session.tag = "throw" THEN session
     ELSE IF session.value = NoSession THEN Return(Redirect(loginPath, pathname))
     ELSE Return(PassThrough)

\* createAuthMiddleware(options)(request), run at time t in environment e
createAuthMiddleware(options, e, t, request) ==
  LET loginPath == LoginPathOf(options)
      protectedPaths == ProtectedPathsOf(options)
      pathname == request.pathname
      isProtected == \E i \in 1..Len(protectedPaths) :
                        StartsWith(pathname, protectedPaths[i])
      session == getSessionFromCookies(e, t, request.cookie)
  IN IF ~isProtected THEN Return(PassThrough)
     ELSE IF pathname = loginPath THEN Return(PassThrough)
     ELSE IF session.tag = "throw" THEN session
     ELSE IF session.value = NoSession THEN Return(Redirect(loginPath, pathname))
     ELSE Return(PassThrough)

AdminRoot == <<SEP, "admin">>
LoginPage == <<SEP, "login">>

LoginPathOptions == {Undefined, Str(<<>>), Str(DefaultLoginPath), Str(LoginPage)}

ProtectedPathOptions ==
  {Undefined, Arr(<<>>), Arr(<<AdminRoot>>), Arr(<<AdminRoot, <<SEP, "blog">> >>),
   Arr(<<(<<SEP>>)>>)}

MiddlewareOptions ==
  {AuthOptions(l, p) : l \in LoginPathOptions, p \in ProtectedPathOptions}

Pathnames ==
  {<<SEP>>, AdminRoot, DefaultLoginPath, <<SEP, "admin", SEP, "posts">>,
   <<SEP, "admin", "istrator">>, LoginPage, <<SEP, "blog">>}

MiddlewareRequest(pathname, cookie) == [pathname |-> pathname, cookie |-> cookie]

MiddlewareCall(options, request, followed) ==
  [fn |-> "middleware", options |-> options, request |-> request, at |-> now,
   followed |-> followed,
   result |-> createAuthMiddleware(options, env, now, request)]

InitMiddleware ==
  /\ env \in LoginEnvs
  /\ now = 0
  /\ ticks = 0
  /\ rateLimitStore = EmptyStore
  /\ issued = {}
  /\ call = NoCall
  /\ InitGhostRL
  /\ IdleRest

\* a login gave the client its session cookie before the clock first advanced
MiddlewareSession ==
  /\ issued = {}
  /\ ticks = 0
  /\ LET r == createSession(env, now, Str(AdminName))
     IN /\ r.tag = "return"
        /\ issued' = {r.value}
  /\ UNCHANGED <<env, now, ticks, rateLimitStore, fs, inflight, resp, call,
                 incs, rolled, evals, streak, loggedOut, requests>>

MiddlewareRequests ==
  /\ \E options \in MiddlewareOptions, pathname \in Pathnames,
        cookie \in {Undefined, Garbage} \cup issued :
       call' = MiddlewareCall(options, MiddlewareRequest(pathname, cookie), FALSE)
  /\ UNCHANGED <<env, now, ticks, rateLimitStore, fs, issued, inflight, resp,
                 incs, rolled, evals, streak, loggedOut, requests>>

\* the client follows the redirect it was given, with the same cookie
FollowRedirect ==
  /\ call.fn = "middleware"
  /\ call.result.tag = "return"
  /\ call.result.value.kind = "redirect"
  /\ call' = MiddlewareCall(call.options,
                            MiddlewareRequest(call.result.value.pathname,
                                              call.request.cookie),
                            TRUE)
  /\ UNCHANGED <<env, now, ticks, rateLimitStore, fs, issued, inflight, resp,
                 incs, rolled, evals, streak, loggedOut, requests>>

NextMiddleware ==
  \/ MiddlewareSession
  \/ MiddlewareRequests
  \/ FollowRedirect
  \/ TickSession

SpecMiddleware == InitMiddleware /\ [][NextMiddleware]_vars

----------------------------------------------------------------------------
(* SpecConcurrent: two saves of one path in flight at once, each advancing  *)
(* by the awaited steps of its provider's writeFile.  LocalStorage: fs.mkdir *)
(* (the directory is there), then fs.writeFile, which opens the file with    *)
(* flag "w" and writes the data chunk by chunk at the position of its own    *)
(* descriptor.  GitHubStorage: repos.getContent for the sha of the blob,     *)
(* then repos.createOrUpdateFileContents, which the service refuses unless   *)
(* the sha is that of the blob now stored.  CloudflareR2Storage: one         *)
(* PutObject.  The store holds the one path, a document is a sequence of     *)
(* units of bytes.                                                           *)

Savers == {1, 2}
MaxChunk == 2      \* units written by one write call of fs.writeFile

SavePath == PostPath
StoredDocument == <<"a">>
SaveDocuments == {<<"a">>, <<"b", "b">>, <<"c", "c", "c">>}

NoSave == [pc |-> "idle", doc |-> <<>>, pos |-> 0, sha |-> Undefined,
           early |-> FALSE, result |-> Return(FALSE)]

HasBlob(store) == SavePath \in DOMAIN store
Blob(store) == store[SavePath].content

\* the sha of a blob is a hash of its content
BlobSha(store) == IF HasBlob(store) THEN [type |-> "sha", of |-> Blob(store)] ELSE Undefined

\* write(fd, data) at position pos of a descriptor: bytes past the end of the
\* file leave a hole of zero bytes before them
WriteAt(old, pos, data) ==
  [j \in 1..Max(Len(old), pos + Len(data)) |->
     IF j > pos /\ j <= pos + Len(data) THEN data[j - pos]
     ELSE IF j <= Len(old) THEN old[j]
     ELSE NUL]

SaverKind == getStorageProvider(env).value.kind

InitConcurrent ==
  /\ env \in StorageEnvs
  /\ now = 0
  /\ ticks = 0
  /\ rateLimitStore = EmptyStore
  /\ issued = {}
  /\ call = NoCall
  /\ InitGhostRL
  /\ fs \in {EmptyRemote, FsPut(EmptyRemote, SavePath, FileNode(StoredDocument))}
  /\ inflight = [i \in Savers |-> NoSave]
  /\ resp = NoResp
  /\ loggedOut = FALSE
  /\ evals = [i \in Identifiers |-> 0]
  /\ streak = [i \in Identifiers |-> Streak(0)]
  /\ requests = 0

ConcurrentRest ==
  UNCHANGED <<env, now, ticks, rateLimitStore, issued, resp, call,
              incs, rolled, evals, streak, loggedOut, requests>>

\* saveMarkdownContent up to storage.writeFile, and writeFile up to its first
\* await
SaveStart(i) ==
  /\ inflight[i].pc = "idle"
  /\ \E doc \in SaveDocuments :
       inflight' = [inflight EXCEPT ![i] =
                      [NoSave EXCEPT !.doc = doc,
                                     !.pc = CASE SaverKind = "local" -> "open"
                                              [] SaverKind = "github" -> "getContent"
                                              [] OTHER -> "put"]]
  /\ fs' = fs
  /\ ConcurrentRest

\* fs.writeFile: open(path, "w") creates or truncates the file
WriteFileOpen(i) ==
  /\ inflight[i].pc = "open"
  /\ fs' = FsPut(fs, SavePath, FileNode(<<>>))
  /\ inflight' = [inflight EXCEPT ![i].pc = IF inflight[i].doc = <<>> THEN "done" ELSE "write",
                                  ![i].result = Return(TRUE)]
  /\ ConcurrentRest

\* fs.writeFile: one write of the next chunk
WriteFileChunk(i) ==
  /\ inflight[i].pc = "write"
  /\ LET s == inflight[i]
         k == Min({MaxChunk, Len(s.doc) - s.pos})
         data == SubSeq(s.doc, s.pos + 1, s.pos + k)
     IN /\ fs' = FsPut(fs, SavePath,
                       FileNode(WriteAt(IF HasBlob(fs) THEN Blob(fs) ELSE <<>>, s.pos, data)))
        /\ inflight' = [inflight EXCEPT ![i].pos = s.pos + k,
                                        ![i].pc = IF s.pos + k = Len(s.doc)
                                                    THEN "done" ELSE "write"]
  /\ ConcurrentRest

\* GitHubStorage.writeFile: the sha of the existing file, if there is one
WriteFileGetSha(i) ==
  /\ inflight[i].pc = "getContent"
  /\ inflight' = [inflight EXCEPT ![i].sha = BlobSha(fs),
                                  ![i].pc = "commit",
                                  ![i].early = \A j \in Savers \ {i} :
                                                  inflight[j].pc # "done"]
  /\ fs' = fs
  /\ ConcurrentRest

\* GitHubStorage.writeFile: createOrUpdateFileContents with that sha
WriteFileCommit(i) ==
  /\ inflight[i].pc = "commit"
  /\ IF inflight[i].sha = BlobSha(fs)
       THEN /\ fs' = FsPut(fs, SavePath, FileNode(inflight[i].doc))
            /\ inflight' = [inflight EXCEPT ![i].pc = "done", ![i].result = Return(TRUE)]
       ELSE /\ fs' = fs
            /\ inflight' = [inflight EXCEPT ![i].pc = "done",
                              ![i].result = IF inflight[i].sha = Undefined
                                              THEN Throw("Unprocessable Entity")
                                            ELSE Throw("Conflict")]
  /\ ConcurrentRest

\* CloudflareR2Storage.writeFile: PutObject replaces the object
WriteFilePut(i) ==
  /\ inflight[i].pc = "put"
  /\ fs' = FsPut(fs, SavePath, FileNode(inflight[i].doc))
  /\ inflight' = [inflight EXCEPT ![i].pc = "done", ![i].result = Return(TRUE)]
  /\ ConcurrentRest

NextConcurrent ==
  \E i \in Savers :
    \/ SaveStart(i)
    \/ WriteFileOpen(i)
    \/ WriteFileChunk(i)
    \/ WriteFileGetSha(i)
    \/ WriteFileCommit(i)
    \/ WriteFilePut(i)

SpecConcurrent == InitConcurrent /\ [][NextConcurrent]_vars

----------------------------------------------------------------------------
(* Properties of the rate limiter *)

\* C5: within one window checkRateLimit(id) reports remaining = max(0, 5 - k)
\* and isLimited = (k >= 5), k being the number of incrementRateLimit(id)
\* calls since the last resetRateLimit(id); the entry of every identifier
\* counts its own increments only; remaining is never negative; a check
\* right after a reset reports remaining = 5 and isLimited = FALSE.
C5_CheckCountsIncrements ==
  /\ call.fn = "checkRateLimit" =>
       /\ call.result.remaining >= 0
       /\ call.oneWindow =>
            /\ call.result.remaining = Max(0, 5 - call.k)
            /\ call.result.isLimited = (call.k >= 5)
       /\ call.afterReset =>
            /\ call.result.remaining = 5
            /\ call.result.isLimited = FALSE
  /\ \A id \in DOMAIN rateLimitStore :
       ~rolled[id] => rateLimitStore[id].count = incs[id]

C5_Witness ==
  /\ call.fn = "checkRateLimit"
  /\ call.oneWindow
  /\ call.k = 6
  /\ call.result.isLimited
  /\ call.result.remaining = 0
  /\ \E other \in Identifiers \ {call.id} : incs[other] \in 1..4

----------------------------------------------------------------------------
(* Properties of the session manager *)

SecretOk == IsString(env.CMS_SESSION_SECRET)
            /\ Len(env.CMS_SESSION_SECRET.s) >= 32

\* the token is a JWT signed with the configured secret that carries a string
\* username and an expiry later than second t
Acceptable(token, t) ==
  /\ SecretOk
  /\ token.type = "string"
  /\ token.kind = "jwt"
  /\ token.key = env.CMS_SESSION_SECRET.s
  /\ token.username.type = "string"
  /\ token.exp.type = "number"
  /\ token.exp.n > t \div 1000

\* C8: verifySession never throws; it returns null for every token that has a
\* bad signature, is expired, is malformed or lacks a string username, and
\* for every token when the secret is missing or shorter than 32 characters;
\* getSessionFromCookies gives the same null for a missing and an invalid cookie.
C8_VerifyNeverThrows ==
  call.fn \in {"verifySession", "getSessionFromCookies"} =>
    /\ call.result.tag = "return"
    /\ ~Acceptable(call.token, call.at) => call.result.value = NoSession

C8_Witness ==
  /\ call.fn = "verifySession"
  /\ ~SecretOk
  /\ call.token.kind = "jwt"
  /\ call.result = Return(NoSession)

----------------------------------------------------------------------------
(* Properties of the credential checker *)

Unconfigured == Falsy(env.CMS_ADMIN_USERNAME) \/ Falsy(env.CMS_ADMIN_PASSWORD)

\* u is 1..100 characters of [a-zA-Z0-9_-] and p is 1..1000 characters
FormatOk(u, p) ==
  /\ Len(u) \in 1..100
  /\ \A i \in 1..Len(u) : u[i] \in UsernameChars
  /\ Len(p) \in 1..1000

\* C9 as claimed: without configured admin credentials validateCredentials
\* throws for any input and never returns false.
C9_ThrowsForAnyInput ==
  (call.fn = "validateCredentials" /\ Unconfigured) => call.result.tag = "throw"

\* C9 amended: without configured admin credentials validateCredentials
\* throws for every input that passes format validation, and returns false
\* for every input that fails it.
C9_ThrowsForWellFormedInput ==
  (call.fn = "validateCredentials" /\ Unconfigured) =>
    IF FormatOk(call.username, call.password)
      THEN call.result.tag = "throw"
      ELSE call.result = Return(FALSE)

C9_Witness ==
  /\ call.fn = "validateCredentials"
  /\ Unconfigured
  /\ FormatOk(call.username, call.password)
  /\ call.result.tag = "throw"

\* C10: with admin credentials configured validateCredentials(u, p) returns
\* true if and only if u and p pass format validation, u is the configured
\* username and p is the configured password.
C10_TrueIffEqual ==
  (call.fn = "validateCredentials" /\ ~Unconfigured) =>
    /\ call.result.tag = "return"
    /\ call.result.value =
         (/\ FormatOk(call.username, call.password)
          /\ call.username = env.CMS_ADMIN_USERNAME.s
          /\ call.password = env.CMS_ADMIN_PASSWORD.s)

----------------------------------------------------------------------------
(* Properties of the login endpoint *)

\* C3: for each identifier, under any interleaving of concurrent handleLogin
\* requests, at most 5 failed credential evaluations happen within one
\* rate-limit window.
C3_AtMostFivePerWindow ==
  \A ip \in Identifiers : evals[ip] <= MAX_ATTEMPTS

\* C4: when one identifier makes 6 consecutive, non-overlapping failed login
\* requests inside one window that has not expired, the first five are
\* answered 401 and the sixth is answered 429 with a strictly positive
\* Retry-After.
C4_SixthIs429Positive ==
  (resp.handler = "login" /\ resp.streakBefore.clean /\ resp.live) =>
     /\ (resp.streakBefore.n < MAX_ATTEMPTS /\ resp.failed) => resp.status = 401
     /\ resp.streakBefore.n = MAX_ATTEMPTS =>
           (resp.status = 429 /\ resp.retryAfter > 0)

----------------------------------------------------------------------------
(* Properties of the HTTP API *)

\* the response answers a protected handler whose request carried no cookie,
\* or a cookie that is no acceptable token at the time of the request
Rejected(r) == r.handler \in ProtectedHandlers /\ ~Acceptable(r.cookie, r.at)

\* C1: in any sequence of requests, a request to the content GET, POST,
\* DELETE, list or upload handler that carries no session cookie, or one that
\* is not a valid session, is answered 401 {error: "Unauthorized"}, makes no
\* storage-provider call, and leaves the stored content and uploads unchanged.
C1_UnauthorizedTouchesNothing ==
  /\ [](Rejected(resp) =>
          (resp.status = 401 /\ resp.error = "Unauthorized" /\ resp.calls = {}))
  /\ [][Rejected(resp') => fs' = fs]_vars

C1_Witness ==
  /\ resp.handler = "saveContent"
  /\ resp.cookie = Jwt(OtherSecret, Str(AdminName), FarFuture)
  /\ resp.target = PostPath
  /\ resp.status = 401
  /\ issued # {}

\* C6: a login with the configured credentials that passes the rate limiter,
\* under a session secret of at least 32 characters, is answered 200 with a
\* cms-session cookie that is a valid session; every later content GET for an
\* existing item with that cookie, before the expiry the cookie carries, is
\* answered 200, and the same GET without a cookie is answered 401.
C6_LoginThenGet ==
  /\ (resp.handler = "login" /\ resp.body = GoodLogin /\ SecretOk) =>
        /\ resp.status = 200
        /\ resp.cookie \in issued
        /\ Acceptable(resp.cookie, resp.at)
        /\ resp.cookie.exp.n = EpochSeconds(resp.at) + SESSION_DURATION
  /\ (resp.handler = "getContent" /\ resp.existed) =>
        /\ (resp.cookie \in issued /\ EpochSeconds(resp.at) < resp.cookie.exp.n)
              => resp.status = 200
        /\ resp.cookie = Undefined => resp.status = 401

C6_Witness ==
  /\ resp.handler = "getContent"
  /\ resp.existed
  /\ resp.cookie \in issued
  /\ resp.at >= SESSION_MS - 1
  /\ resp.status = 200

\* C7: logout revokes nothing on the server: after handleLogout has answered,
\* a token issued by a login is accepted by verifySession and by every
\* protected handler exactly as long as the expiry it carries lies in the
\* future, and never from that second on.
C7_LogoutRevokesNothing ==
  (resp.handler \in ProtectedHandlers /\ resp.afterLogout /\ resp.cookie \in issued) =>
     ((resp.session # NoSession /\ resp.status # 401)
        <=> EpochSeconds(resp.at) < resp.cookie.exp.n)

C7_Witness ==
  /\ resp.handler = "getContent"
  /\ resp.afterLogout
  /\ resp.cookie \in issued
  /\ resp.session # NoSession
  /\ resp.status = 200

----------------------------------------------------------------------------
(* Properties of the content functions *)

\* the location lies in the content root or below it
InsideContentRoot(full) == StartsWith(Key(full), ContentRootKey)

\* C2: in every call from a public content entry point, each path handed to a
\* StorageProvider method passes validateFilePath (the empty path names the
\* content root itself), and the location it resolves to lies inside the
\* content root.
C2_StoragePathsValidated ==
  call.fn # "none" =>
    \A c \in call.calls :
       /\ c.arg = <<>> \/ validateFilePath(c.arg).tag = "return"
       /\ InsideContentRoot(c.full)

\* the admin credentials are configured and the login request carried a JSON
\* body that is not the configured pair: a wrong, malformed, over-long or
\* missing field
FailingBody(r) ==
  /\ ~Unconfigured
  /\ r.handler = "login" /\ r.status # 429 /\ r.body.kind = "json" /\ r.body # GoodLogin

FieldsPresent(body) == ~Falsy(body.username) /\ ~Falsy(body.password)

\* C11 as stated: every failing login from a non-limited identifier, missing
\* fields included, is answered with the same status and body,
\* 401 {error: "Invalid credentials"}.
C11_FailuresGeneric ==
  FailingBody(resp) => (resp.status = 401 /\ resp.error = "Invalid credentials")

\* C11 amended: every failing login from a non-limited identifier whose
\* username and password are both present and non-empty is answered
\* 401 {error: "Invalid credentials"}, whichever field is wrong, malformed or
\* over-long; a login with a missing or empty field is answered
\* 400 {error: "Username and password are required"}.
C11_FailuresGenericWhenPresent ==
  FailingBody(resp) =>
     IF FieldsPresent(resp.body)
       THEN resp.status = 401 /\ resp.error = "Invalid credentials"
       ELSE resp.status = 400 /\ resp.error = "Username and password are required"

C11_Witness ==
  /\ FailingBody(resp)
  /\ resp.body.password = Str(Rep("p", MAX_PASSWORD_LENGTH + 1))
  /\ resp.status = 401
  /\ resp.error = "Invalid credentials"

\* what getMarkdownContent shows of a path: the item, or a failure
Shown(fsys, q) ==
  LET r == getMarkdownContent(fsys, q).res
  IN IF r.tag = "throw" THEN [absent |-> TRUE] ELSE [absent |-> FALSE, item |-> r.value]

ValidDirectPaths == {q \in DirectPaths : validateFilePath(q).tag = "return"}

\* q names another location than p
OtherPath(q, p) == Key(getFullPath(q)) # Key(getFullPath(p))

\* C12: content items are absent or present, driven only by the caller: right
\* after a successful save(p, d, c), get(p) returns {data: sanitizeFrontmatter(d),
\* content: c}; right after a successful delete(p), get(p) fails; a get changes
\* nothing; and no call changes what get shows of another path.  By induction
\* get(p) shows the most recent successful save not followed by a delete.
C12_GetReturnsLastSave ==
  [][LET p == call'.args[1]
     IN /\ (call'.fn = "saveMarkdownContent" /\ call'.result.tag = "return") =>
             Shown(fs', p) = [absent |-> FALSE,
                              item |-> [data |-> sanitizeFrontmatter(call'.args[2]),
                                        content |-> call'.args[3]]]
        /\ (call'.fn = "deleteMarkdownContent" /\ call'.result.tag = "return") =>
             Shown(fs', p).absent
        /\ call'.fn = "getMarkdownContent" => fs' = fs
        /\ (call'.fn \in {"saveMarkdownContent", "deleteMarkdownContent"}
              /\ p \in ValidDirectPaths) =>
             \A q \in ValidDirectPaths :
                OtherPath(q, p) => Shown(fs', q) = Shown(fs, q)]_vars

\* C13: parseMarkdown(stringifyMarkdown(data, content)) gives back the same
\* data and the same content, for sanitized data and any content, the empty
\* content and contents without a final newline included.
C13_RoundTrip ==
  call.fn = "parseMarkdown" =>
     call.result = [data |-> call.of[1], content |-> call.of[2]]

----------------------------------------------------------------------------
(* Properties of the storage providers *)

Provider == getStorageProvider(env).value

\* the backend answers and says that something is at the path
Present(store, p) == ProviderExists(Provider, store, p, TRUE).res.value

\* a file is stored at the path
FileStored(store, p) ==
  CASE Provider.kind = "local" -> IsFile(store, getFullPath(p))
    [] Provider.kind = "github" -> getGitHubPath(p) \in DOMAIN store
    [] Provider.kind = "r2" -> getR2Path(p) \in DOMAIN store

NotFoundErrors == {"ENOENT", "Not Found", "NoSuchKey"}

\* C14: for every storage variant, deleteFile on a path at which nothing is
\* present fails (with a not-found error when the backend answers) and never
\* reports success; deleteFile on a path at which a file is stored removes
\* it, so that exists is false afterwards.
C14_DeleteContract ==
  [][call'.fn = "deleteFile" =>
       LET p == call'.args[1]
       IN /\ ~Present(fs, p) =>
               /\ call'.result.tag = "throw"
               /\ call'.up => call'.result.error \in NotFoundErrors
          /\ (FileStored(fs, p) /\ call'.up) =>
               (call'.result.tag = "return" /\ ~Present(fs', p))]_vars

\* C15: for every storage variant and every content c, the empty string
\* included: after a successful writeFile(p, c), readFile(p) returns exactly
\* c; writing the same content again changes nothing; and readFile fails,
\* with the backend answering, only when no file is stored at the path.
C15_WriteThenRead ==
  [][LET p == call'.args[1]
     IN /\ (call'.fn = "writeFile" /\ call'.result.tag = "return") =>
             /\ ProviderReadFile(Provider, fs', p, TRUE).res = Return(call'.args[2])
             /\ ProviderWriteFile(Provider, fs', p, call'.args[2], TRUE).fs = fs'
        /\ (call'.fn = "readFile" /\ call'.result.tag = "throw" /\ call'.up) =>
             ~FileStored(fs, p)]_vars

\* no directory is at the path
DirAbsent(store, d) ==
  CASE Provider.kind = "local" -> ~IsDir(store, getFullPath(d))
    [] Provider.kind = "github" ->
         reposGetContent(store, getGitHubPath(d), TRUE).tag = "throw"
         \/ getGitHubPath(d) \in DOMAIN store
    [] Provider.kind = "r2" ->
         ~\E k \in DOMAIN store :
             StartsWith(k, IF d # <<>> THEN getR2Path(d) \o <<SEP>> ELSE getR2Path(d))

\* C16: for every storage variant, exists never throws: it returns a boolean,
\* and false when the backend fails; listFiles returns the empty list when
\* the directory does not exist.
C16_ExistsAndListNeverFail ==
  /\ call.fn = "exists" =>
       /\ call.result.tag = "return"
       /\ call.result.value \in BOOLEAN
       /\ ~call.up => call.result.value = FALSE
  /\ (call.fn = "listFiles" /\ DirAbsent(fs, call.args[1])) =>
       call.result = Return({})

C16_Witness ==
  /\ call.fn = "exists"
  /\ call.kind = "github"
  /\ ~call.up
  /\ FileStored(fs, call.args[1])
  /\ call.result = Return(FALSE)

IsSet(v) == v.type = "string" /\ v.s # <<>>

R2Credentials ==
  /\ IsSet(env.CLOUDFLARE_ACCOUNT_ID)
  /\ IsSet(env.CLOUDFLARE_ACCESS_KEY_ID)
  /\ IsSet(env.CLOUDFLARE_SECRET_ACCESS_KEY)

R2Complete == IsSet(env.NEXT_PUBLIC_R2_PUBLIC_URL) /\ IsSet(env.R2_BUCKET_NAME)

GitHubSelected == env.NODE_ENV = Str(<<"production">>) /\ IsSet(env.GITHUB_TOKEN)

\* GITHUB_REPO reads owner/repo with an owner and a repository name
GitHubComplete ==
  /\ IsSet(env.GITHUB_REPO)
  /\ \E i \in 2..(Len(env.GITHUB_REPO.s) - 1) :
        /\ env.GITHUB_REPO.s[i] = SEP
        /\ \A j \in 1..(i - 1) : env.GITHUB_REPO.s[j] # SEP
        /\ env.GITHUB_REPO.s[i + 1] # SEP

Selected(kind) == call.result.tag = "return" /\ call.result.value.kind = kind

\* C17: getStorageProvider selects R2 when the three object-storage
\* credentials are set; otherwise GitHub when NODE_ENV is "production" and
\* GITHUB_TOKEN is set; otherwise the local provider.  When the rest of the
\* selected provider's configuration is missing or malformed the call fails:
\* it never falls back to a provider of lower priority.
C17_ProviderPriority ==
  call.fn = "getStorageProvider" =>
     IF R2Credentials
       THEN IF R2Complete THEN Selected("r2") ELSE call.result.tag = "throw"
     ELSE IF GitHubSelected
       THEN IF GitHubComplete THEN Selected("github") ELSE call.result.tag = "throw"
     ELSE Selected("local")

C17_Witness ==
  /\ call.fn = "getStorageProvider"
  /\ R2Credentials /\ ~R2Complete
  /\ GitHubSelected /\ GitHubComplete
  /\ call.result.tag = "throw"

----------------------------------------------------------------------------
(* Properties of the validators *)

LeadingSeparator(s) == s # <<>> /\ s[1] \in {SEP, BSL}

\* C18: validateFilePath fails for every string that contains "..", and for
\* every string that begins with "/" or "\" or normalizes to such a string;
\* a value it returns contains no ".." and begins with no separator; and
\* validateFilePath("blog/post.md") is "blog/post.md".
C18_NoTraversal ==
  call.fn = "validateFilePath" =>
     LET filePath == call.args[1]
     IN /\ (\/ Includes(filePath, <<DOT, DOT>>)
            \/ LeadingSeparator(filePath)
            \/ LeadingSeparator(PathNormalize(filePath))) => call.result.tag = "throw"
        /\ call.result.tag = "return" =>
             (~Includes(call.result.value, <<DOT, DOT>>) /\ ~LeadingSeparator(call.result.value))
        /\ filePath = <<"blog", SEP, "post", DOT, "md">> => call.result = Return(filePath)

C18_Witness ==
  /\ call.fn = "validateFilePath"
  /\ call.args[1] = <<DOT, SEP, BSL, "a">>
  /\ PathNormalize(call.args[1]) = <<BSL, "a">>
  /\ call.result.tag = "throw"

\* the segments of a path, separated by "/" or "\"
RECURSIVE Segments(_)
Segments(s) ==
  IF \A i \in 1..Len(s) : s[i] \notin {SEP, BSL} THEN <<s>>
  ELSE LET i == Min({j \in 1..Len(s) : s[j] \in {SEP, BSL}})
       IN <<SubSeq(s, 1, i - 1)>> \o Segments(SubSeq(s, i + 1, Len(s)))

\* a segment is a Windows reserved device name, with or without an extension
HasReservedSegment(s) ==
  \E i \in 1..Len(Segments(s)) : MatchesReservedName(Segments(s)[i])

\* C19: validateFilePath fails for every path of which some segment is a
\* Windows reserved name, in any letter case and with any extension:
\* "con.md", "blog/con.md" and "NUL/post.md" are all rejected.
C19_ReservedSegments ==
  (call.fn = "validateFilePath" /\ HasReservedSegment(call.args[1])) =>
     call.result.tag = "throw"

\* every key of the value matches /^[a-zA-Z0-9_-]+$/ and no string in it
\* holds a null byte, at every depth
RECURSIVE Sanitary(_)
Sanitary(value) ==
  CASE value.type = "string" -> ~Includes(value.s, <<NUL>>)
    [] value.type = "array" -> \A i \in DOMAIN value.items : Sanitary(value.items[i])
    [] value.type = "object" ->
         \A k \in DOMAIN value.map : MatchesNameRegex(k) /\ Sanitary(value.map[k])
    [] OTHER -> TRUE

\* C20: at every nesting depth, through nested maps and through arrays, the
\* output of sanitizeFrontmatter has only keys that match ^[a-zA-Z0-9_-]+$
\* and only strings without null bytes; numbers, booleans and null are
\* unchanged; {"bad key!": 1, "ok-key": "a\x00b"} becomes {"ok-key": "ab"}.
C20_SanitizedAtEveryDepth ==
  call.fn = "sanitizeFrontmatter" =>
     LET data == call.args[1]
     IN /\ Sanitary([type |-> "object", map |-> call.result])
        /\ \A k \in DOMAIN data :
             (MatchesNameRegex(k) /\ data[k].type \in {"number", "boolean", "null"}) =>
                (k \in DOMAIN call.result /\ call.result[k] = data[k])
        /\ data = (BadKey :> Num(1)) @@ (OkKey :> Str(<<"a", NUL, "b">>)) =>
             call.result = (OkKey :> Str(<<"a", "b">>))

----------------------------------------------------------------------------
(* Properties of saving and uploading *)

\* Buffer.byteLength of the document that a save of (data, content) serializes
SerializedSize(data, content) ==
  RawBytes(stringifyMarkdown(sanitizeFrontmatter(data), content))

\* C21: saveMarkdownContent rejects before writing: when the path fails
\* validateFilePath, or the serialized document is larger than 10 MiB, the
\* save fails, no write reaches the provider and the stored state is
\* unchanged; a document of exactly 10 MiB is not rejected and is written.
C21_SaveRejectsBeforeWriting ==
  [][call'.fn = "saveMarkdownContent" =>
       LET size == SerializedSize(call'.args[2], call'.args[3])
           valid == validateFilePath(call'.args[1]).tag = "return"
       IN /\ (~valid \/ size > MAX_FILE_SIZE) =>
               (call'.result.tag = "throw" /\ call'.calls = {} /\ fs' = fs)
          /\ (valid /\ size = MAX_FILE_SIZE) =>
               /\ call'.calls # {}
               /\ call'.result.tag = "return" \/ call'.result.error \in {"EISDIR", "ENOTDIR", "ENOENT"}]_vars

C21_Witness ==
  /\ call.fn = "saveMarkdownContent"
  /\ SerializedSize(call.args[2], call.args[3]) = MAX_FILE_SIZE
  /\ call.result.tag = "return"
  /\ IsFile(fs, getFullPath(call.args[1]))
  /\ RawBytes(fs[Key(getFullPath(call.args[1]))].content) = MAX_FILE_SIZE

UploadsRootKey == Key(PathJoin(<<Cwd, PublicDir, UploadsDir>>))

\* the files that the step stores or overwrites
Stored(before, after) ==
  {k \in DOMAIN after : after[k].kind = "file" /\ (k \notin DOMAIN before \/ before[k] # after[k])}

\* C22: file uploads are limited to 10 MiB: an authenticated upload request
\* whose file is larger than MAX_FILE_SIZE is answered with an error and the
\* provider stores nothing of it.
C22_UploadSizeLimit ==
  [][resp'.handler = "upload" =>
       \A k \in Stored(fs, fs') : ByteLength(fs'[k].content) <= MAX_FILE_SIZE]_vars

\* the content items: what is stored under the content root
ContentItems(fsys) == {k \in DOMAIN fsys : StartsWith(k, ContentRootKey)}

\* C23: uploads stay in the uploads namespace: for every file name that the
\* upload endpoint accepts, names with ".." or separators included, the file
\* is stored under the uploads root, never in the content namespace or
\* outside the uploads root, and no upload creates, changes or deletes a
\* content item.
C23_UploadsStayInUploads ==
  [][resp'.handler = "upload" =>
       /\ \A c \in resp'.calls : StartsWith(Key(c.full), UploadsRootKey)
       /\ \A k \in Stored(fs, fs') : StartsWith(k, UploadsRootKey)
       /\ ContentItems(fs') = ContentItems(fs)
       /\ \A k \in ContentItems(fs) : fs'[k] = fs[k]]_vars

----------------------------------------------------------------------------
(* Properties of the content handlers *)

ContentHandlers == {"getContent", "saveContent", "deleteContent"}

\* the last request was an authenticated content request whose path
\* validateFilePath rejects
InvalidPathRequest(r) ==
  /\ r.handler \in ContentHandlers
  /\ r.session # NoSession
  /\ validateFilePath(r.target).tag = "throw"

\* C24: an authenticated content GET, POST or DELETE whose path fails
\* validateFilePath is answered with status 400, and the storage state is
\* unchanged.
C24_InvalidPathIs400 ==
  [][InvalidPathRequest(resp') => (resp'.status = 400 /\ fs' = fs)]_vars

----------------------------------------------------------------------------
(* Properties of the middleware *)

\* the request carries the token of a session that is still running
HasValidSession(request, t) ==
  /\ request.cookie \in issued
  /\ request.cookie.key = env.CMS_SESSION_SECRET.s
  /\ request.cookie.exp.n > EpochSeconds(t)

MustRedirect(options, request, t) ==
  /\ \E i \in DOMAIN ProtectedPathsOf(options) :
        StartsWith(request.pathname, ProtectedPathsOf(options)[i])
  /\ request.pathname # LoginPathOf(options)
  /\ ~HasValidSession(request, t)

\* C25: the middleware redirects to loginPath, with the query parameter from
\* set to the requested pathname, if and only if the pathname starts with one
\* of the protected paths, differs from loginPath and the request has no valid
\* session; every other request is passed through, a request for loginPath
\* always, so the request that follows a redirect is never redirected again.
C25_RedirectIff ==
  call.fn = "middleware" =>
    /\ call.result.tag = "return"
    /\ MustRedirect(call.options, call.request, call.at) =>
         call.result.value = Redirect(LoginPathOf(call.options), call.request.pathname)
    /\ ~MustRedirect(call.options, call.request, call.at) =>
         call.result.value = PassThrough
    /\ call.request.pathname = LoginPathOf(call.options) =>
         call.result.value = PassThrough
    /\ call.followed => call.result.value = PassThrough

\* a redirect to a login page that lies under a protected path was followed
C25_Witness ==
  /\ call.fn = "middleware"
  /\ call.followed
  /\ call.request.pathname = LoginPage
  /\ call.request.cookie \in issued
  /\ call.options.protectedPaths = Arr(<<(<<SEP>>)>>)
  /\ call.result.value = PassThrough

----------------------------------------------------------------------------
(* Properties of concurrent saves *)

BothSaved == \A i \in Savers : inflight[i].pc = "done"
Succeeded == {i \in Savers : inflight[i].result.tag = "return"}

\* both saves read the same sha before either of them committed
SameShaRace ==
  /\ SaverKind = "github"
  /\ \A i \in Savers : inflight[i].early
  /\ inflight[1].sha = inflight[2].sha

\* C26: after two concurrent saves of one path, in every interleaving, the
\* stored document is exactly the document of one of the two saves, never a
\* mixture; on the GitHub backend, when both saves resolved the same sha
\* before either committed, at most one commit succeeds and the other save
\* fails with an error.
C26_LastWriterWins ==
  BothSaved =>
    /\ HasBlob(fs)
    /\ Blob(fs) \in {inflight[i].doc : i \in Succeeded}
    /\ SameShaRace =>
         /\ Cardinality(Succeeded) <= 1
         /\ \A i \in Savers \ Succeeded : inflight[i].result.tag = "throw"

----------------------------------------------------------------------------
(* Properties of the sweep of the rate-limit store *)

\* the entries of a store whose window has not ended at time t
LiveEntries(store, t) ==
  [x \in {y \in DOMAIN store : store[y].resetTime >= t} |-> store[x]]

\* the store as a sweep at this moment would leave it
Swept == cleanupRateLimitStore(rateLimitStore, now)

\* C27: the sweep is never required for correctness: at whatever point a
\* cleanupRateLimitStore call is inserted, it removes only entries with
\* now > resetTime, and every checkRateLimit call made after it returns what
\* it would have returned without it (isLimited, remaining, resetTime and
\* whether a fresh window is started); the stores that checkRateLimit,
\* incrementRateLimit and resetRateLimit leave behind hold the same live
\* entries with and without the sweep, so no later call can tell either.
C27_SweepNeverRequired ==
  /\ \A id \in DOMAIN rateLimitStore \ DOMAIN Swept : now > rateLimitStore[id].resetTime
  /\ \A id \in DOMAIN Swept : Swept[id] = rateLimitStore[id]
  /\ \A id \in Identifiers :
       /\ checkRateLimit(Swept, now, id).result = checkRateLimit(rateLimitStore, now, id).result
       /\ NoLiveEntry(Swept, now, id) = NoLiveEntry(rateLimitStore, now, id)
       /\ LiveEntries(checkRateLimit(Swept, now, id).store, now)
            = LiveEntries(checkRateLimit(rateLimitStore, now, id).store, now)
       /\ LiveEntries(incrementRateLimit(Swept, now, id), now)
            = LiveEntries(incrementRateLimit(rateLimitStore, now, id), now)
       /\ LiveEntries(resetRateLimit(Swept, id), now)
            = LiveEntries(resetRateLimit(rateLimitStore, id), now)

\* the sweep has just removed the expired entry of one identifier and kept
\* the entry of a limited identifier that is in the last millisecond of its
\* window
C27_Witness ==
  /\ call.fn = "cleanupRateLimitStore"
  /\ \E id \in Identifiers :
       /\ id \notin DOMAIN rateLimitStore
       /\ incs[id] > 0
  /\ \E id \in DOMAIN rateLimitStore :
       /\ rateLimitStore[id].resetTime = now
       /\ rateLimitStore[id].count >= MAX_ATTEMPTS

----------------------------------------------------------------------------
(* Properties of the login handler and the rate limiter together *)

\* the failed attempts the limiter holds against an identifier at time t
FailedAttempts(store, t, ip) ==
  IF NoLiveEntry(store, t, ip) THEN 0 ELSE store[ip].count

\* C29: the failed-attempt count of an identifier is cleared only by a login
\* request that is answered 200 with a session cookie; a request answered
\* with an error (400, 401, 429, 500, session creation failing included)
\* neither deletes the entry nor lowers the count.
C29_ClearedOnlyOnSuccess ==
  [][\A ip \in LoginIps :
       FailedAttempts(rateLimitStore', now, ip) < FailedAttempts(rateLimitStore, now, ip) =>
         /\ inflight'[ip] < inflight[ip]
         /\ resp'.handler = "login"
         /\ resp'.ip = ip
         /\ resp'.status = 200
         /\ resp'.cookie # Undefined]_vars

\* a login request of ip arrives in this step: it is either answered at once
\* or goes on to read its body
Arrival(ip) ==
  \/ inflight'[ip] > inflight[ip]
  \/ inflight' = inflight /\ resp' # resp /\ resp'.handler = "login" /\ resp'.ip = ip

\* C30: while an identifier is limited (a live entry with count >= 5), every
\* login request arriving from it is answered 429 without its credentials
\* being evaluated, and count and resetTime stay as they are; nothing done
\* inside a live window moves its resetTime; the first request that arrives
\* with now > resetTime is evaluated, in a fresh window with count 0.
C30_LimitedUntilReset ==
  [][\A ip \in LoginIps :
       /\ (FailedAttempts(rateLimitStore, now, ip) >= MAX_ATTEMPTS /\ Arrival(ip)) =>
            /\ resp'.status = 429
            /\ resp'.cookie = Undefined
            /\ inflight' = inflight
            /\ evals' = evals
            /\ issued' = issued
            /\ rateLimitStore' = rateLimitStore
       /\ (~NoLiveEntry(rateLimitStore, now, ip) /\ ip \in DOMAIN rateLimitStore') =>
            rateLimitStore'[ip].resetTime = rateLimitStore[ip].resetTime
       /\ (ip \in DOMAIN rateLimitStore /\ now > rateLimitStore[ip].resetTime /\ Arrival(ip)) =>
            /\ inflight'[ip] = inflight[ip] + 1
            /\ rateLimitStore'[ip] = [count |-> 0, resetTime |-> now + WINDOW_MS]]_vars

\* a request was answered 429 in the last millisecond of the window of its
\* identifier
C30_Witness ==
  /\ resp.handler = "login"
  /\ resp.status = 429
  /\ resp.at = rateLimitStore[resp.ip].resetTime
  /\ rateLimitStore[resp.ip].count >= MAX_ATTEMPTS
====
